---------------------------- MODULE Spec2Model ----------------------------
(***************************************************************************)
(* Tower: monitoring of tmux panes (event_detector.py), the escalation     *)
(* pipeline of the local wrapper (main.py, summarizer.py) and the inbound  *)
(* channels that route a human reply back into a pane (telegram_tower.py,  *)
(* whatsapp_tower.py, inbound_server.py).                                   *)
(*                                                                         *)
(* Conventions.                                                            *)
(*  - Time is in whole seconds.  One invocation of a handler reads the     *)
(*    clock (time.time()) once; the reads of one invocation are            *)
(*    microseconds apart in the code.                                      *)
(*  - A text is a non-empty sequence of lines (the string split at "\n");  *)
(*    the empty string is the one-line text <<"">>.                        *)
(*  - A chat message is a sequence of tokens: a digit, ":", " ", or a      *)
(*    word (a run of letters, already lower case).                         *)
(*  - Python's None is the record NoEvent for an event and 0 for a         *)
(*    session number.                                                      *)
(***************************************************************************)
EXTENDS Integers, Sequences, FiniteSets, TLC

(***************************************************************************)
(* Bounds of the model.                                                    *)
(***************************************************************************)
\* Clock value (time.time()) when the monitors are constructed.
Epoch == 1000

\* Iterations of TmuxMonitor.run explored per behaviour.
MaxPolls == 6

\* Registered tmux sessions (len(TMUX_SESSIONS)).
NumSessions == 2

\* Clock advances between inbound requests explored per behaviour.
MaxTicks == 2

Sessions == 1..NumSessions

(***************************************************************************)
(* event_detector.py: constants                                            *)
(***************************************************************************)
poll_interval == 2

debounce_seconds == 300

stuck_threshold == 600

ERROR_PATTERNS ==
    << "FAILED", "Error:", "Traceback \\(most recent call last\\)",
       "error\\[E\\d+\\]", "npm ERR!", "exit code [1-9]", "Command failed" >>

PERMISSION_PATTERNS ==
    << "Do you want to", "Allow\\?", "Proceed\\?", "Continue\\?",
       "Are you sure", "\\[y/N\\]", "\\[Y/n\\]" >>

\* Sample lines a pane can show.
SampleLines ==
    { "FAILED tests/test_auth.py", "Error: exit code 1", "Command failed",
      "  npm ERR! code 1", "npm ERR! code 1",
      "Do you want to proceed? [y/N]", "Allow?", "running tests", "" }

\* re.search(pattern, line, re.IGNORECASE) on the sample lines.
ReSearch(pattern, line) ==
    CASE pattern = "FAILED" ->
             line \in {"FAILED tests/test_auth.py", "Command failed"}
      [] pattern = "Error:" -> line = "Error: exit code 1"
      [] pattern = "npm ERR!" ->
             line \in {"  npm ERR! code 1", "npm ERR! code 1"}
      [] pattern = "exit code [1-9]" -> line = "Error: exit code 1"
      [] pattern = "Command failed" -> line = "Command failed"
      [] pattern = "Do you want to" -> line = "Do you want to proceed? [y/N]"
      [] pattern = "Allow\\?" -> line = "Allow?"
      [] pattern = "Proceed\\?" -> line = "Do you want to proceed? [y/N]"
      [] pattern = "\\[y/N\\]" -> line = "Do you want to proceed? [y/N]"
      [] pattern = "\\[Y/n\\]" -> line = "Do you want to proceed? [y/N]"
      [] OTHER -> FALSE

\* str.strip() of one sample line.
StripLine(line) ==
    IF line = "  npm ERR! code 1" THEN "npm ERR! code 1" ELSE line

\* A line of whitespace only.
IsBlank(line) == StripLine(line) = ""

RECURSIVE DropLeadingBlank(_)
DropLeadingBlank(lines) ==
    IF lines = << >> THEN << >>
    ELSE IF IsBlank(Head(lines)) THEN DropLeadingBlank(Tail(lines))
    ELSE lines

RECURSIVE DropTrailingBlank(_)
DropTrailingBlank(lines) ==
    IF lines = << >> THEN << >>
    ELSE IF IsBlank(lines[Len(lines)])
         THEN DropTrailingBlank(SubSeq(lines, 1, Len(lines) - 1))
    ELSE lines

\* output.strip().split("\n"): the lines of the text without the blank
\* lines and the white space at either end.
StripSplit(output) ==
    LET core == DropTrailingBlank(DropLeadingBlank(output))
    IN  IF core = << >> THEN << "" >>
        ELSE [i \in 1..Len(core) |->
                 IF i = 1 THEN StripLine(core[i]) ELSE core[i]]

\* Mutant of LastN: every line counts as recent.
LastN_All(lines, n) == lines

\* lines[-n:]
LastN(lines, n) ==
    IF Len(lines) <= n THEN lines
    ELSE SubSeq(lines, Len(lines) - n + 1, Len(lines))

\* lines[:n]
FirstN(lines, n) ==
    IF Len(lines) <= n THEN lines ELSE SubSeq(lines, 1, n)

NoEvent == [event_type |-> "none"]

DetectedEvent(type, output, keys, conf, t) ==
    [event_type |-> type, raw_output |-> output, key_lines |-> keys,
     confidence |-> conf, timestamp |-> t]

\* Mutant of ErrorKeyLines: the lines matching any error pattern are
\* collected.
RECURSIVE ErrorKeyLines_AnyPattern(_, _, _)
ErrorKeyLines_AnyPattern(pattern, lines, acc) ==
    IF lines = << >> \/ Len(acc) >= 5 THEN acc
    ELSE ErrorKeyLines_AnyPattern(pattern, Tail(lines),
             IF \E p \in 1..Len(ERROR_PATTERNS) :
                   ReSearch(ERROR_PATTERNS[p], Head(lines))
             THEN Append(acc, StripLine(Head(lines)))
             ELSE acc)

\* The inner loop of the error check for one pattern: the stripped matching
\* lines in text order, the loop stopping once five are collected.
RECURSIVE ErrorKeyLines(_, _, _)
ErrorKeyLines(pattern, lines, acc) ==
    IF lines = << >> \/ Len(acc) >= 5 THEN acc
    ELSE ErrorKeyLines(pattern, Tail(lines),
                       IF ReSearch(pattern, Head(lines))
                       THEN Append(acc, StripLine(Head(lines)))
                       ELSE acc)

\* Mutant of FirstErrorPattern: the error patterns are looked for in the
\* last ten lines only, like the permission patterns.
FirstErrorPattern_Recent(lines) ==
    LET recent == IF Len(lines) <= 10 THEN lines
                  ELSE SubSeq(lines, Len(lines) - 9, Len(lines))
        hit == {p \in 1..Len(ERROR_PATTERNS) :
                   \E i \in 1..Len(recent) : ReSearch(ERROR_PATTERNS[p], recent[i])}
    IN  IF hit = {} THEN 0 ELSE CHOOSE p \in hit : \A q \in hit : p <= q

\* Index of the first error pattern that matches some line, 0 if none.
FirstErrorPattern(lines) ==
    LET hit == {p \in 1..Len(ERROR_PATTERNS) :
                   \E i \in 1..Len(lines) : ReSearch(ERROR_PATTERNS[p], lines[i])}
    IN  IF hit = {} THEN 0 ELSE CHOOSE p \in hit : \A q \in hit : p <= q

\* First matching line of the recent lines for a permission pattern, 0 if none.
FirstMatch(pattern, lines) ==
    LET hit == {i \in 1..Len(lines) : ReSearch(pattern, lines[i])}
    IN  IF hit = {} THEN 0 ELSE CHOOSE i \in hit : \A j \in hit : i <= j

FirstPermissionPattern(recent) ==
    LET hit == {p \in 1..Len(PERMISSION_PATTERNS) :
                   FirstMatch(PERMISSION_PATTERNS[p], recent) # 0}
    IN  IF hit = {} THEN 0 ELSE CHOOSE p \in hit : \A q \in hit : p <= q

\* Mutant of detect_event: the confidences of an error and of a permission
\* prompt exchanged.
detect_event_ErrorHigher(output, t) ==
    LET lines == StripSplit(output)
        ep == FirstErrorPattern(lines)
        recent == LastN(lines, 10)
        pp == FirstPermissionPattern(recent)
    IN  IF ep # 0
        THEN DetectedEvent("error", output,
                 FirstN(ErrorKeyLines(ERROR_PATTERNS[ep], lines, << >>), 5),
                 95, t)
        ELSE IF pp # 0
        THEN DetectedEvent("permission", output,
                 << StripLine(recent[FirstMatch(PERMISSION_PATTERNS[pp],
                                                recent)]) >>,
                 90, t)
        ELSE DetectedEvent("normal", output, << >>, 100, t)

\* detect_event(output) at clock value t.  Confidence is in percent.
detect_event(output, t) ==
    LET lines == StripSplit(output)
        ep == FirstErrorPattern(lines)
        recent == LastN(lines, 10)
        pp == FirstPermissionPattern(recent)
    IN  IF ep # 0
        THEN DetectedEvent("error", output,
                 FirstN(ErrorKeyLines(ERROR_PATTERNS[ep], lines, << >>), 5),
                 90, t)
        ELSE IF pp # 0
        THEN DetectedEvent("permission", output,
                 FirstN(<< StripLine(recent[FirstMatch(PERMISSION_PATTERNS[pp],
                                                         recent)]) >>, 3),
                 95, t)
        ELSE DetectedEvent("normal", output, << >>, 100, t)

(***************************************************************************)
(* event_detector.py: TmuxMonitor                                          *)
(***************************************************************************)
\* Texts capture_tmux_pane returns in the monitor runs; <<"">> is also what
\* a failed capture returns.
Texts ==
    { << "" >>,
      << "running tests" >>,
      << "running tests", "FAILED tests/test_auth.py" >>,
      << "Do you want to proceed? [y/N]" >> }

\* A line of pane content with colour escape sequences around it.
ColouredLine == "<ESC>[31mFAILED tests/test_auth.py<ESC>[0m"

\* strip_ansi on the lines of the runs: re.sub of \x1b\[[0-9;]*m by "".
strip_ansi(text) ==
    [i \in DOMAIN text |->
        IF text[i] = ColouredLine THEN "FAILED tests/test_auth.py" ELSE text[i]]

\* What running "tmux capture-pane" came to.  kind: the command ended
\* ("ok"), ended with status 1 because the target does not exist
\* ("missing": tmux writes its complaint to stderr and nothing to stdout),
\* ran into timeout=5 ("timeout"), or could not be started because there is
\* no tmux executable ("no_tmux"); stdout: what it had written to stdout.
CaptureOutcome(kind, stdout) == [kind |-> kind, stdout |-> stdout]

CaptureOutcomes ==
    { CaptureOutcome("ok", text) : text \in Texts \cup {<< ColouredLine >>} }
    \cup { CaptureOutcome("missing", << "" >>),
           CaptureOutcome("timeout", << "" >>),
           CaptureOutcome("timeout", << "running tests", "FAILED tests/test_auth.py" >>),
           CaptureOutcome("no_tmux", << "" >>) }

\* Mutant of capture_tmux_pane: what the command wrote before the timeout
\* is returned.
capture_tmux_pane_Partial(o) ==
    [raised |-> o.kind = "no_tmux", text |-> strip_ansi(o.stdout)]

\* capture_tmux_pane: the text it returns, or raised: subprocess.run
\* raises TimeoutExpired, which is caught, and FileNotFoundError, which is
\* not; without check=True a non-zero exit status raises nothing.
capture_tmux_pane(o) ==
    CASE o.kind = "timeout" -> [raised |-> FALSE, text |-> << "" >>]
      [] o.kind = "no_tmux" -> [raised |-> TRUE, text |-> << "" >>]
      [] OTHER -> [raised |-> FALSE, text |-> strip_ansi(o.stdout)]

\* Mutant of NewMonitor: the idle clock starts at 0, not at the clock value
\* of the construction.
NewMonitor_Zero(t) ==
    [last_output |-> << "" >>, last_event_time |-> 0, last_change_time |-> 0]

\* TmuxMonitor.__init__ at clock value t.
NewMonitor(t) ==
    [last_output |-> << "" >>, last_event_time |-> 0, last_change_time |-> t]

\* Mutant of DebouncedAway: the debounce test left out.
DebouncedAway_Off(m, t) == FALSE

\* Line 183: the debounce test of an error or permission event.
DebouncedAway(m, t) == t - m.last_event_time < debounce_seconds

\* Line 163: idle for longer than the threshold.
IsStuck(m, t) == t - m.last_change_time > stuck_threshold

\* Mutant of StuckAllowed: a STUCK event on every idle poll over the threshold.
StuckAllowed_Always(m, t) == TRUE

\* Line 165: the debounce test of a STUCK event.
StuckAllowed(m, t) == t - m.last_event_time > debounce_seconds

\* "No activity for N minutes"; the key line is modelled by its number N.
StuckKeyLines(m, t) == << (t - m.last_change_time) \div 60 >>

\* Mutant of check_once: a change of the text does not reset the idle clock.
check_once_NoReset(m, output, t) ==
    IF output # m.last_output
    THEN LET m1 == [m EXCEPT !.last_output = output]
             event == detect_event(output, t)
         IN  IF event.event_type = "normal"
             THEN [mon |-> m1, event |-> NoEvent]
             ELSE IF DebouncedAway(m1, t)
             THEN [mon |-> m1, event |-> NoEvent]
             ELSE [mon |-> [m1 EXCEPT !.last_event_time = t], event |-> event]
    ELSE IF IsStuck(m, t) /\ StuckAllowed(m, t)
         THEN [mon |-> [m EXCEPT !.last_event_time = t],
               event |-> DetectedEvent("stuck", output, StuckKeyLines(m, t), 80, t)]
         ELSE [mon |-> m, event |-> NoEvent]

\* Mutant of check_once: a debounced event restarts the debounce window.
check_once_Restart(m, output, t) ==
    IF output # m.last_output
    THEN LET m1 == [m EXCEPT !.last_change_time = t, !.last_output = output]
             event == detect_event(output, t)
         IN  IF event.event_type = "normal"
             THEN [mon |-> m1, event |-> NoEvent]
             ELSE IF DebouncedAway(m1, t)
             THEN [mon |-> [m1 EXCEPT !.last_event_time = t], event |-> NoEvent]
             ELSE [mon |-> [m1 EXCEPT !.last_event_time = t], event |-> event]
    ELSE IF IsStuck(m, t) /\ StuckAllowed(m, t)
         THEN [mon |-> [m EXCEPT !.last_event_time = t],
               event |-> DetectedEvent("stuck", output, StuckKeyLines(m, t), 80, t)]
         ELSE [mon |-> m, event |-> NoEvent]

\* Mutant of check_once: a debounced change is not remembered, so the same
\* text counts as a change again on the next tick.
check_once_Forget(m, output, t) ==
    IF output # m.last_output
    THEN LET m1 == [m EXCEPT !.last_change_time = t, !.last_output = output]
             event == detect_event(output, t)
         IN  IF event.event_type = "normal"
             THEN [mon |-> m1, event |-> NoEvent]
             ELSE IF DebouncedAway(m1, t)
             THEN [mon |-> m, event |-> NoEvent]
             ELSE [mon |-> [m1 EXCEPT !.last_event_time = t], event |-> event]
    ELSE IF IsStuck(m, t) /\ StuckAllowed(m, t)
         THEN [mon |-> [m EXCEPT !.last_event_time = t],
               event |-> DetectedEvent("stuck", output, StuckKeyLines(m, t), 80, t)]
         ELSE [mon |-> m, event |-> NoEvent]

\* Mutant of check_once: an empty capture is skipped, the monitor keeps
\* what it had.
check_once_SkipEmpty(m, output, t) ==
    IF output = << "" >> THEN [mon |-> m, event |-> NoEvent]
    ELSE IF output # m.last_output
    THEN LET m1 == [m EXCEPT !.last_change_time = t, !.last_output = output]
             event == detect_event(output, t)
         IN  IF event.event_type = "normal"
             THEN [mon |-> m1, event |-> NoEvent]
             ELSE IF DebouncedAway(m1, t)
             THEN [mon |-> m1, event |-> NoEvent]
             ELSE [mon |-> [m1 EXCEPT !.last_event_time = t], event |-> event]
    ELSE IF IsStuck(m, t) /\ StuckAllowed(m, t)
         THEN [mon |-> [m EXCEPT !.last_event_time = t],
               event |-> DetectedEvent("stuck", output, StuckKeyLines(m, t), 80, t)]
         ELSE [mon |-> m, event |-> NoEvent]

\* TmuxMonitor.check_once, given what the capture returned and the clock:
\* the monitor's fields afterwards and the returned event (NoEvent: None).
check_once(m, output, t) ==
    IF output # m.last_output
    THEN LET m1 == [m EXCEPT !.last_change_time = t, !.last_output = output]
             event == detect_event(output, t)
         IN  IF event.event_type = "normal"
             THEN [mon |-> m1, event |-> NoEvent]
             ELSE IF DebouncedAway(m1, t)
             THEN [mon |-> m1, event |-> NoEvent]
             ELSE [mon |-> [m1 EXCEPT !.last_event_time = t], event |-> event]
    ELSE IF IsStuck(m, t) /\ StuckAllowed(m, t)
         THEN [mon |-> [m EXCEPT !.last_event_time = t],
               event |-> DetectedEvent("stuck", output, StuckKeyLines(m, t), 80, t)]
         ELSE [mon |-> m, event |-> NoEvent]

(***************************************************************************)
(* event_detector.py: HooksListener                                        *)
(***************************************************************************)
\* reader.read(8192): the most bytes one connection is read for.
READ_LIMIT == 8192

\* asyncio.wait_for(..., timeout=5.0), in seconds.
READ_TIMEOUT == 5

\* What a peer sends on one connection.  delay: seconds until its bytes
\* arrive; size: their number (0: the peer closes without sending); form:
\* a JSON object, a JSON value of another type ("array"), or no JSON
\* ("garbage"); the other fields are the object's keys, "" for an absent
\* key; command: tool_input["command"] is absent, a string or a number.
HookPayload(delay, size, form, name, ntype, command) ==
    [delay |-> delay, size |-> size, form |-> form, hook_event_name |-> name,
     notification_type |-> ntype, command |-> command]

\* The payloads of the listener runs.
HookPayloads ==
    { HookPayload(0, 200, "object", "PermissionRequest", "", "string"),
      HookPayload(0, 200, "object", "PermissionRequest", "", "absent"),
      HookPayload(0, 200, "object", "PermissionRequest", "", "number"),
      HookPayload(0, 9000, "object", "PermissionRequest", "", "string"),
      HookPayload(6, 200, "object", "PermissionRequest", "", "string"),
      HookPayload(0, 200, "object", "Notification", "permission_prompt", "absent"),
      HookPayload(0, 200, "object", "Notification", "idle_prompt", "absent"),
      HookPayload(0, 200, "object", "Notification", "", "absent"),
      HookPayload(0, 200, "object", "Stop", "", "absent"),
      HookPayload(0, 200, "object", "", "", "absent"),
      HookPayload(0, 200, "array", "", "", "absent"),
      HookPayload(0, 200, "garbage", "", "", "absent"),
      HookPayload(0, 0, "garbage", "", "", "absent"),
      HookPayload(6, 200, "garbage", "", "", "absent") }

\* Line 258: the read returned bytes before the timeout.
ReadInTime(p) == p.delay < READ_TIMEOUT

\* Lines 263-267: json.loads of what was read gives a value.  The first
\* READ_LIMIT bytes of a longer JSON text are not a JSON text.
JsonLoads(p) == p.form # "garbage" /\ p.size <= READ_LIMIT

\* _parse_hook_event(hook_data) for a JSON object at clock value t: the
\* returned event (NoEvent for None); raised: line 306 slices a number,
\* which raises TypeError.
parse_hook_event(p, t) ==
    IF p.hook_event_name = "PermissionRequest"
    THEN IF p.command = "number" THEN [raised |-> TRUE, event |-> NoEvent]
         ELSE [raised |-> FALSE,
               event |-> DetectedEvent("permission", "json",
                             IF p.command = "string"
                             THEN << "Permission requested for", "Command" >>
                             ELSE << "Permission requested for" >>,
                             100, t)]
    ELSE IF p.hook_event_name = "Notification"
            /\ p.notification_type = "permission_prompt"
    THEN [raised |-> FALSE,
          event |-> DetectedEvent("permission", "json",
                        << "Permission prompt notification" >>, 100, t)]
    ELSE [raised |-> FALSE, event |-> NoEvent]

\* _handle_connection(reader, writer) for payload p at clock value t: the
\* event handed to the callback (NoEvent: none) and the diagnostic.  Every
\* exception ends in one of the except clauses of lines 277-280.
handle_connection(p, t) ==
    IF ~ReadInTime(p) THEN [event |-> NoEvent, diag |-> "timeout"]
    ELSE IF p.size = 0 THEN [event |-> NoEvent, diag |-> "no_data"]
    ELSE IF ~JsonLoads(p) THEN [event |-> NoEvent, diag |-> "invalid_json"]
    ELSE IF p.form # "object" \/ parse_hook_event(p, t).raised
    THEN [event |-> NoEvent, diag |-> "handler_error"]
    ELSE [event |-> parse_hook_event(p, t).event, diag |-> "none"]

(***************************************************************************)
(* Chat messages as token sequences                                        *)
(***************************************************************************)
DigitChars == {"0", "1", "2", "3", "4", "5", "6", "7", "8", "9"}

\* str.isdigit()
IsDigit(text) == text # << >> /\ \A i \in 1..Len(text) : text[i] \in DigitChars

\* str.lower() of one token; "Yes" is the one token with an upper-case letter.
LowerTok(tok) == IF tok = "Yes" THEN "yes" ELSE tok

\* str.lower()
Lower(text) == [i \in 1..Len(text) |-> LowerTok(text[i])]

RECURSIVE LStrip(_)
LStrip(text) ==
    IF text # << >> /\ Head(text) = " " THEN LStrip(Tail(text)) ELSE text

RECURSIVE RStrip(_)
RStrip(text) ==
    IF text # << >> /\ text[Len(text)] = " "
    THEN RStrip(SubSeq(text, 1, Len(text) - 1)) ELSE text

\* str.strip()
Strip(text) == RStrip(LStrip(text))

\* sep in text
Contains(text, sep) == \E i \in 1..Len(text) : text[i] = sep

\* text.split(sep, 1)
SplitOnce(text, sep) ==
    IF Contains(text, sep)
    THEN LET k == CHOOSE i \in 1..Len(text) :
                     text[i] = sep /\ \A j \in 1..(i - 1) : text[j] # sep
         IN  << SubSeq(text, 1, k - 1), SubSeq(text, k + 1, Len(text)) >>
    ELSE << text >>

DigitValue(d) ==
    CASE d = "0" -> 0 [] d = "1" -> 1 [] d = "2" -> 2 [] d = "3" -> 3
      [] d = "4" -> 4 [] d = "5" -> 5 [] d = "6" -> 6 [] d = "7" -> 7
      [] d = "8" -> 8 [] d = "9" -> 9

\* int(text) succeeds: digits, white space allowed around them.
IntParses(text) == IsDigit(Strip(text))

RECURSIVE DecimalValue(_)
DecimalValue(digits) ==
    IF digits = << >> THEN 0
    ELSE 10 * DecimalValue(SubSeq(digits, 1, Len(digits) - 1))
            + DigitValue(digits[Len(digits)])

\* int(text)
IntOf(text) == DecimalValue(Strip(text))

(***************************************************************************)
(* Time-based one-time codes (pyotp.TOTP(secret).verify(code, valid_window=1)) *)
(***************************************************************************)
\* pyotp's time step in seconds.
TOTP_INTERVAL == 30

TimeStep(t) == t \div TOTP_INTERVAL

DigitOf(n) == CHOOSE d \in DigitChars : DigitValue(d) = n

\* The six-digit code of a time step.  The HMAC of the shared secret is
\* modelled by a function that gives distinct steps distinct codes.
TotpAt(k) ==
    [i \in 1..6 |->
        DigitOf(((k + 100000) \div
                   (CASE i = 1 -> 100000 [] i = 2 -> 10000 [] i = 3 -> 1000
                      [] i = 4 -> 100 [] i = 5 -> 10 [] i = 6 -> 1)) % 10)]

\* Mutant of verify_totp: valid_window=0, the code of the current step only.
verify_totp_Exact(code, t) == code = TotpAt(TimeStep(t))

\* verify_totp(code) at clock value t: valid_window=1 accepts the codes of
\* the current step and of the steps next to it.
verify_totp(code, t) ==
    \E k \in {TimeStep(t) - 1, TimeStep(t), TimeStep(t) + 1} : code = TotpAt(k)

(***************************************************************************)
(* telegram_tower.py                                                       *)
(***************************************************************************)
MAX_AUTH_ATTEMPTS == 5

LOCKOUT_SECONDS == 300

\* TELEGRAM_USER_ID, which main() requires to be set.
AUTHORIZED_USER_ID == 1

\* Telegram users that message the bot.
Users == {1, 2}

\* failed_auth_attempts.get(user_id, {"count": 0, "lockout_until": 0}): a
\* missing key reads as this record.
NoAttempts == [count |-> 0, lockout_until |-> 0]

\* check_rate_limit(user_id)[0]
check_rate_limit(faa, u, t) == ~(t < faa[u].lockout_until)

\* Lines 71-73 of record_failed_auth: the record the count is added to.
AttemptsToCount(a, t) == IF t >= a.lockout_until THEN NoAttempts ELSE a

record_failed_auth(faa, u, t) ==
    LET a1 == AttemptsToCount(faa[u], t)
        a2 == [a1 EXCEPT !.count = @ + 1]
        a3 == IF a2.count >= MAX_AUTH_ATTEMPTS
              THEN [a2 EXCEPT !.lockout_until = t + LOCKOUT_SECONDS]
              ELSE a2
    IN  [faa EXCEPT ![u] = a3]

\* Mutant of clear_failed_auth: the record of the failures is kept.
clear_failed_auth_Keep(faa, u) == faa

clear_failed_auth(faa, u) == [faa EXCEPT ![u] = NoAttempts]

\* Mutant of is_authorized: every user passes.
is_authorized_Anyone(u) == TRUE

is_authorized(u) ==
    IF AUTHORIZED_USER_ID # 0 THEN u = AUTHORIZED_USER_ID ELSE TRUE

\* What a handler did: the state it leaves, the kind of its answer and the
\* tmux send-keys calls it made.
Result(st, reply, sent) == [st |-> st, reply |-> reply, sent |-> sent]

\* send_to_session without the range check of its first two lines.
send_to_session_AnyOrdinal(session_num, instruction, tmuxOk) ==
    [reply |-> IF tmuxOk THEN "sent" ELSE "failed",
     sent |-> << [session |-> session_num, instruction |-> instruction,
                  ok |-> tmuxOk] >>]

\* send_to_session(session_num, instruction); tmuxOk: send-keys succeeds.
send_to_session(session_num, instruction, tmuxOk) ==
    IF session_num < 1 \/ session_num > NumSessions
    THEN [reply |-> "no_session", sent |-> << >>]
    ELSE [reply |-> IF tmuxOk THEN "sent" ELSE "failed",
          sent |-> << [session |-> session_num, instruction |-> instruction,
                       ok |-> tmuxOk] >>]

\* get_session_detail(session_num)
get_session_detail(session_num) ==
    IF session_num < 1 \/ session_num > NumSessions
    THEN "no_session" ELSE "detail"

\* The first session of a set, 0 if the set is empty: the session a scan
\* "for i, sess in enumerate(TMUX_SESSIONS, 1)" stops at.
FirstOf(S) == IF S = {} THEN 0 ELSE CHOOSE i \in S : \A j \in S : i <= j

TgStatusWords == { << "status" >>, << "s" >>, << "sitrep" >>, << "?" >> }

TgApproveWords == { << "approve" >>, << "yes" >>, << "y" >>, << "ok" >>, << "go" >> }

\* Lines 351-376 of handle_message: the user is not authenticated.
TgAuthenticate(st, u, text, t) ==
    IF ~check_rate_limit(st.failed_auth_attempts, u, t)
    THEN Result(st, "locked", << >>)
    ELSE IF IsDigit(text) /\ Len(text) = 6
    THEN IF verify_totp(text, t)
         THEN Result([st EXCEPT
                        !.failed_auth_attempts = clear_failed_auth(@, u),
                        !.user_sessions = [@ EXCEPT ![u] = TRUE]],
                     "authenticated", << >>)
         ELSE Result([st EXCEPT
                        !.failed_auth_attempts = record_failed_auth(@, u, t)],
                     "invalid_code", << >>)
    ELSE Result(st, "need_code", << >>)

\* Lines 396-403 of handle_message (289-297 of approve_command): the
\* remembered permission session is used, when there is one in range.
TgUseRemembered(st) ==
    st.last_permission_session # 0
        /\ 1 <= st.last_permission_session
        /\ st.last_permission_session <= NumSessions

\* The quick approve of handle_message and approve_command.  waiting: the
\* sessions whose captured pane holds one of the waiting keywords.
TgApprove(st, tmuxOk, waiting) ==
    IF TgUseRemembered(st)
    THEN LET r == send_to_session(st.last_permission_session, << "yes" >>, tmuxOk)
         IN  Result([st EXCEPT !.last_permission_session = 0], r.reply, r.sent)
    ELSE IF waiting # {}
    THEN LET r == send_to_session(FirstOf(waiting), << "yes" >>, tmuxOk)
         IN  Result(st, r.reply, r.sent)
    ELSE Result(st, "no_waiting", << >>)

\* Lines 417: the two parts of a direct command.
TgDirectParts(text) ==
    IF Contains(text, ":") THEN SplitOnce(text, ":") ELSE SplitOnce(text, " ")

\* Lines 415-427 of handle_message; "fallthrough" when the text is no
\* direct command.
TgDirect(st, text, tmuxOk) ==
    LET parts == TgDirectParts(text)
    IN  IF Len(parts) = 2 /\ IntParses(parts[1]) /\ Strip(parts[2]) # << >>
        THEN LET r == send_to_session(IntOf(parts[1]), Strip(parts[2]), tmuxOk)
             IN  Result(st, r.reply, r.sent)
        ELSE Result(st, "fallthrough", << >>)

\* Lines 378-437 of handle_message: the user is authenticated.
TgCommand(st, text, tmuxOk, waiting) ==
    IF Lower(text) \in TgStatusWords THEN Result(st, "status", << >>)
    ELSE IF IsDigit(text) /\ Len(text) <= 2
    THEN Result(st, get_session_detail(IntOf(text)), << >>)
    ELSE IF Lower(text) \in TgApproveWords THEN TgApprove(st, tmuxOk, waiting)
    ELSE IF Head(text) \in DigitChars
            /\ TgDirect(st, text, tmuxOk).reply # "fallthrough"
    THEN TgDirect(st, text, tmuxOk)
    ELSE Result(st, "unknown", << >>)

\* handle_message(update) for a message of user u at clock value t.
TgHandleMessage(st, u, message, t, tmuxOk, waiting) ==
    LET text == Strip(message)
    IN  IF text = << >> THEN Result(st, "none", << >>)
        ELSE IF ~is_authorized(u) THEN Result(st, "unauthorized", << >>)
        ELSE IF ~st.user_sessions[u] THEN TgAuthenticate(st, u, text, t)
        ELSE TgCommand(st, text, tmuxOk, waiting)

\* approve_command without its check of the user's session.
TgApproveCommand_NoGate(st, u, tmuxOk, waiting) == TgApprove(st, tmuxOk, waiting)

\* approve_command(update)
TgApproveCommand(st, u, tmuxOk, waiting) ==
    IF ~st.user_sessions[u] THEN Result(st, "need_code", << >>)
    ELSE TgApprove(st, tmuxOk, waiting)

\* retry_command(update).  errored: the sessions whose captured pane holds
\* one of the error keywords.
TgRetryCommand(st, u, tmuxOk, errored) ==
    IF ~st.user_sessions[u] THEN Result(st, "need_code", << >>)
    ELSE IF errored # {}
    THEN LET r == send_to_session(FirstOf(errored), << "retry" >>, tmuxOk)
         IN  Result(st, r.reply, r.sent)
    ELSE Result(st, "no_errors", << >>)

\* logout_command(update)
TgLogoutCommand(st, u) ==
    Result([st EXCEPT !.user_sessions = [@ EXCEPT ![u] = FALSE]],
           "logged_out", << >>)

\* Lines 481-485 of TelegramAlerter.on_event: the permission memory.
TgOnEvent(st, session_num, event_type) ==
    IF event_type = "permission"
    THEN [st EXCEPT !.last_permission_session = session_num]
    ELSE st

(***************************************************************************)
(* whatsapp_tower.py                                                       *)
(***************************************************************************)
\* The senders ("From") of WhatsApp messages.
Phones == {1, 2}

WaStatusWords == { << "status" >>, << "s" >>, << "sitrep" >>, << "report" >>, << "?" >> }

WaApproveWords ==
    { << "approve" >>, << "yes" >>, << "y" >>, << "continue" >>, << "go" >>, << "ok" >> }

WaRetryWords == { << "retry" >>, << "again" >>, << "rerun" >> }

WaStopWords == { << "stop" >>, << "abort" >>, << "cancel" >>, << "kill" >> }

WaHelpWords == { << "help" >>, << "h" >>, << "commands" >>, << "?" >> }

WaLogoutWords == { << "logout" >>, << "bye" >>, << "exit" >> }

\* Lines 140-149 of handle_command: the sender is not authenticated.
WaAuthenticate(ws, phone, text, t) ==
    IF IsDigit(text) /\ Len(text) = 6
    THEN IF verify_totp(text, t)
         THEN Result([ws EXCEPT ![phone] = TRUE], "authenticated", << >>)
         ELSE Result(ws, "invalid_code", << >>)
    ELSE Result(ws, "need_code", << >>)

\* Lines 162-169: the scan for a session waiting for input.
WaApprove(ws, tmuxOk, waiting) ==
    IF waiting # {}
    THEN LET r == send_to_session(FirstOf(waiting), << "yes" >>, tmuxOk)
         IN  Result(ws, r.reply, r.sent)
    ELSE Result(ws, "no_waiting", << >>)

\* Lines 172-178: the scan for a session showing an error.
WaRetry(ws, tmuxOk, errored) ==
    IF errored # {}
    THEN LET r == send_to_session(FirstOf(errored), << "retry" >>, tmuxOk)
         IN  Result(ws, r.reply, r.sent)
    ELSE Result(ws, "no_errors", << >>)

\* Lines 185-193: the direct command; "fallthrough" when the text is none.
WaDirect(ws, text, tmuxOk) ==
    LET parts == TgDirectParts(text)
    IN  IF Head(text) \in DigitChars /\ Len(parts) = 2 /\ IntParses(parts[1])
        THEN LET r == send_to_session(IntOf(parts[1]), Strip(parts[2]), tmuxOk)
             IN  Result(ws, r.reply, r.sent)
        ELSE Result(ws, "fallthrough", << >>)

\* Lines 151-218 of handle_command: the sender is authenticated.  The empty
\* text reaches text[0] of line 185, which raises IndexError.
WaCommand(ws, phone, text, tmuxOk, waiting, errored) ==
    LET text_lower == Strip(Lower(text))
    IN  IF text_lower \in WaStatusWords THEN Result(ws, "status", << >>)
        ELSE IF IsDigit(text)
        THEN Result(ws, get_session_detail(IntOf(text)), << >>)
        ELSE IF text_lower \in WaApproveWords THEN WaApprove(ws, tmuxOk, waiting)
        ELSE IF text_lower \in WaRetryWords THEN WaRetry(ws, tmuxOk, errored)
        ELSE IF text_lower \in WaStopWords THEN Result(ws, "which_session", << >>)
        ELSE IF text = << >> THEN Result(ws, "error", << >>)
        ELSE IF WaDirect(ws, text, tmuxOk).reply # "fallthrough"
        THEN WaDirect(ws, text, tmuxOk)
        ELSE IF text_lower \in WaHelpWords THEN Result(ws, "help", << >>)
        ELSE IF text_lower \in WaLogoutWords
        THEN Result([ws EXCEPT ![phone] = FALSE], "logged_out", << >>)
        ELSE Result(ws, "unknown", << >>)

\* whatsapp_webhook followed by handle_command(phone, text) at clock value
\* t, for a message without media; ws: user_sessions, phone -> authenticated.
WaHandleCommand(ws, phone, body, t, tmuxOk, waiting, errored) ==
    LET text == Strip(body)
    IN  IF ~ws[phone] THEN WaAuthenticate(ws, phone, text, t)
        ELSE WaCommand(ws, phone, text, tmuxOk, waiting, errored)

(***************************************************************************)
(* inbound_server.py: the voice line                                       *)
(***************************************************************************)
\* The CallSid values of incoming calls.
Calls == {1, 2}

\* The status classes of get_all_session_statuses that the commands read.
StatusKinds == {"waiting for your input", "hit a problem", "working"}

\* What get_all_session_statuses() returns in the runs, one status per
\* session: all sessions alike, or the first waiting and the others failed.
StatusLists ==
    {[s \in Sessions |-> k] : k \in StatusKinds}
        \cup {[s \in Sessions |-> IF s = 1 THEN "waiting for your input"
                                  ELSE "hit a problem"]}

\* call_sessions.get(call_sid, ...) of a CallSid that is no key.
NoCall ==
    [present |-> FALSE, authenticated |-> FALSE, attempts |-> 0,
     statuses |-> << >>]

\* answer_call()
answer_call(cs, sid) ==
    [cs EXCEPT ![sid] = [present |-> TRUE, authenticated |-> FALSE,
                         attempts |-> 0, statuses |-> << >>]]

\* Mutant of verify_code: a valid code authenticates every call.
verify_code_Global(cs, sid, digits, t, statuses) ==
    IF verify_totp(digits, t)
    THEN Result([c \in Calls |->
                    [cs[c] EXCEPT !.present = TRUE, !.authenticated = TRUE]],
                "authenticated", << >>)
    ELSE Result(cs, "invalid_code", << >>)

\* verify_code() at clock value t.  The failure branch changes the stored
\* session in place; the default of a missing CallSid is dropped.
verify_code(cs, sid, digits, t, statuses) ==
    LET session == [cs[sid] EXCEPT !.attempts = @ + 1]
    IN  IF verify_totp(digits, t)
        THEN Result([cs EXCEPT ![sid] =
                        [session EXCEPT !.present = TRUE,
                                        !.authenticated = TRUE,
                                        !.statuses = statuses]],
                    "authenticated", << >>)
        ELSE Result(IF cs[sid].present THEN [cs EXCEPT ![sid] = session] ELSE cs,
                    IF session.attempts >= 3 THEN "too_many" ELSE "invalid_code",
                    << >>)

VoiceByeWords == {"bye", "done", "hang up", "later"}

VoiceApproveWords == {"approve", "yes", "continue", "go ahead"}

VoiceRetryWords == {"retry", "try again"}

VoiceStopWords == {"stop", "abort", "kill"}

VoiceStatusWords == {"status", "update", "what's happening"}

\* any(x in speech for x in words), on the phrases of the speech.
SaysAny(speech, words) == \E i \in 1..Len(speech) : speech[i] \in words

\* The sessions a stored status list gives the status kind.
WithStatus(statuses, kind) ==
    {i \in 1..Len(statuses) : statuses[i] = kind}

\* Lines 255-265 and 268-276 of handle_command: subprocess.run without
\* check=True, so the answer does not depend on the exit status.
VoiceSend(cs, sessions, instruction, tmuxOk, none) ==
    IF sessions # {}
    THEN Result(cs, "sent",
                << [session |-> FirstOf(sessions), instruction |-> instruction,
                    ok |-> tmuxOk] >>)
    ELSE Result(cs, none, << >>)

\* handle_command() of the voice line; speech is lower-cased by line 226.
VoiceHandleCommand(cs, sid, speech, digits, tmuxOk, statusesNow) ==
    LET session == cs[sid]
        said == Lower(speech)
    IN  IF ~session.authenticated THEN Result(cs, "bye", << >>)
        ELSE IF digits # << >> THEN Result(cs, "detail", << >>)
        ELSE IF said = << >> THEN Result(cs, "none", << >>)
        ELSE IF SaysAny(said, VoiceByeWords) THEN Result(cs, "hangup", << >>)
        ELSE IF SaysAny(said, VoiceApproveWords)
        THEN VoiceSend(cs, WithStatus(session.statuses, "waiting for your input"),
                       << "yes" >>, tmuxOk, "no_waiting")
        ELSE IF SaysAny(said, VoiceRetryWords)
        THEN VoiceSend(cs, WithStatus(session.statuses, "hit a problem"),
                       << "retry" >>, tmuxOk, "none")
        ELSE IF SaysAny(said, VoiceStopWords)
        THEN Result(cs, "which_session", << >>)
        ELSE IF SaysAny(said, VoiceStatusWords)
        THEN Result([cs EXCEPT ![sid] = [session EXCEPT !.statuses = statusesNow]],
                    "status", << >>)
        ELSE Result(cs, "unknown", << >>)

(***************************************************************************)
(* summarizer.py                                                           *)
(***************************************************************************)
\* A key is a string of characters; an instruction is a message.
SummaryOption(key, label, instruction) ==
    [key |-> key, label |-> label, instruction |-> instruction]

\* The options of _basic_summary(event).
BasicOptions ==
    << SummaryOption(<< "1" >>, "approve", << "yes" >>),
       SummaryOption(<< "2" >>, "retry", << "retry" >>),
       SummaryOption(<< "9" >>, "stop", << "Stop and wait for me" >>) >>

\* Lines 268-277 of _parse_response: _extract_json found no JSON.
UnparsedOptions ==
    << SummaryOption(<< "1" >>, "continue", << "Continue with the current task" >>),
       SummaryOption(<< "2" >>, "stop", << "Stop and wait for me" >>) >>

\* Lines 280-294 of _parse_response: the options of the reply that pass the
\* validation, in the reply's order.
RECURSIVE ValidOptions(_)
ValidOptions(raw) ==
    IF raw = << >> THEN << >>
    ELSE LET opt == Head(raw)
         IN  IF ~(IsDigit(opt.key) /\ Len(opt.key) = 1)
                 \/ opt.label = "" \/ opt.instruction = << >>
             THEN ValidOptions(Tail(raw))
             ELSE << opt >> \o ValidOptions(Tail(raw))

\* Lines 297-300 of _parse_response.
WithStop(options) ==
    IF \E i \in 1..Len(options) : options[i].key = << "9" >>
    THEN options
    ELSE Append(options,
                SummaryOption(<< "9" >>, "stop everything",
                              << "Stop immediately and wait for me" >>))

\* What the language model answers: nothing usable (kind "unparsed") or
\* JSON with a list of options (kind "json"); kind "none": no model is
\* configured.
LlmReplies ==
    { [kind |-> "none", options |-> << >>],
      [kind |-> "unparsed", options |-> << >>],
      [kind |-> "json", options |->
          << SummaryOption(<< "1" >>, "rerun tests", << "Run the tests again" >>),
             SummaryOption(<< "1", "0" >>, "skip", << "Skip the tests" >>),
             SummaryOption(<< "2" >>, "", << "Continue" >>) >>],
      [kind |-> "json", options |->
          << SummaryOption(<< "9" >>, "revert", << "Revert the change" >>),
             SummaryOption(<< "1" >>, "approve", << "yes" >>),
             SummaryOption(<< "1" >>, "deny", << "no" >>) >>] }

\* summarize(event).options for the model's answer llm.
SummaryOptions(llm) ==
    CASE llm.kind = "none" -> BasicOptions
      [] llm.kind = "unparsed" -> UnparsedOptions
      [] OTHER -> WithStop(ValidOptions(llm.options))

(***************************************************************************)
(* main.py: ClaudeCodeWrapper                                              *)
(***************************************************************************)
\* The loop of lines 114-118 without its comparison of key and response.
InstructionFor_First(options, response) == options[1].instruction

\* Lines 114-118 of handle_event: the instruction of the first option whose
\* key is the response, << >> for None.
InstructionFor(options, response) ==
    LET hit == {i \in 1..Len(options) : options[i].key = response}
    IN  IF hit = {} THEN << >>
        ELSE options[CHOOSE i \in hit : \A j \in hit : i <= j].instruction

\* Mutant of handle_event: the outcome does not look at the result of
\* send_to_claude.
handle_event_SentAnyway(pane, event, llm, response, tmuxOk) ==
    LET options == SummaryOptions(llm)
        instruction == InstructionFor(options, response)
        log == [event_type |-> event.event_type,
                raw_output |-> event.raw_output,
                options_offered |-> [i \in 1..Len(options) |-> options[i].key],
                human_response |-> response,
                instruction_sent |-> instruction,
                outcome |-> IF instruction = << >> THEN "no_match" ELSE "sent"]
    IN  [log |-> log,
         sent |-> IF instruction = << >> THEN << >>
                  ELSE << [session |-> pane, instruction |-> instruction,
                           ok |-> tmuxOk] >>]

\* handle_event(event) of the wrapper of session pane: the log entry it
\* appends and the send-keys calls of send_to_claude.  response is what the caller returned, << >> for None or
\* the empty string.
handle_event(pane, event, llm, response, tmuxOk) ==
    LET options == SummaryOptions(llm)
        instruction == InstructionFor(options, response)
        log == [event_type |-> event.event_type,
                raw_output |-> event.raw_output,
                options_offered |-> [i \in 1..Len(options) |-> options[i].key],
                human_response |-> response,
                instruction_sent |-> instruction,
                outcome |-> IF instruction = << >> THEN "no_match"
                            ELSE IF tmuxOk THEN "sent" ELSE "send_failed"]
    IN  [log |-> log,
         sent |-> IF instruction = << >> THEN << >>
                  ELSE << [session |-> pane, instruction |-> instruction,
                           ok |-> tmuxOk] >>]

VARIABLES
    now,        \* the clock, time.time()
    polls,      \* iterations of the run loops so far
    monitor,    \* session -> the TmuxMonitor's fields
    ret,        \* session -> time and result of the latest check_once
    events,     \* session -> the events handed to the callback, in order
    escChanges, \* session -> the times check_once saw the text change to
                \* one that classifies as error or permission (history)
    ticks,      \* clock advances between inbound requests so far
    user_sessions,            \* Telegram: user -> authenticated
    failed_auth_attempts,     \* Telegram: user -> count and lockout_until
    last_permission_session,  \* Telegram: session number, 0 for None
    out,        \* what the latest inbound handler did
    verified,   \* channel -> the principals that passed a code
                \* verification and have not logged out since (history)
    failStreak, \* Telegram: user -> failed verifications in a row (history)
    lockDue,    \* Telegram: user -> end of the lockout that MAX_AUTH_ATTEMPTS
                \* failures in a row call for, 0 if none (history)
    program,    \* the entry point that runs: main.py, telegram_tower.py,
                \* whatsapp_tower.py or inbound_server.py
    wa_user_sessions,   \* WhatsApp: phone -> authenticated
    call_sessions,      \* voice: CallSid -> the call's session
    logs,       \* main.py: ClaudeCodeWrapper.logs
    replies,    \* replies of the authenticated principal handled so far
    pending,    \* the latest escalation delivered to the principal (history)
    capture,    \* the text handed to detect_event
    detected,   \* what detect_event returned for it, NoEvent before the call
    served,     \* HooksListener: connections handled so far
    hook_conn,  \* HooksListener: the latest connection and what became of it
    hook_events, \* HooksListener: the events handed to the callback, in order
    pane,       \* what the latest run of "tmux capture-pane" came to
    loops,      \* session -> "running" while TmuxMonitor.run runs for it,
                \* "raised" once an exception has ended it, "none" without
    stopping,   \* stop() of the alerter or of the listener has been called
    listener,   \* HooksListener: "serving", "closed", "none" without one
    turn,       \* the monitor thread that ran last among the iterations
                \* past the explored ones, 0 before them
    approving   \* Telegram: where the handler of an affirmative reply
                \* stands, the session number it read and what
                \* send_to_session returned to it

monVars == << polls, monitor, ret, events, escChanges >>

tgVars == << user_sessions, failed_auth_attempts, last_permission_session >>

authHistory == << failStreak, lockDue >>

otherVars == << wa_user_sessions, call_sessions, logs, replies, pending >>

\* The running program, and the state of the classifier runs and of the
\* hooks listener, which the other entry points leave alone.
loopVars == << pane, loops, stopping, listener, turn, approving >>

progVars ==
    << program, capture, detected, served, hook_conn, hook_events, loopVars >>

vars ==
    << now, monVars, ticks, tgVars, out, verified, authHistory, progVars,
       otherVars >>

Channels == {"telegram", "whatsapp", "voice"}

\* No escalation delivered yet.
NoEscalation ==
    [seq |-> 0, session |-> 0, event |-> NoEvent, options |-> << >>]

NoRequest ==
    [chan |-> "none", who |-> 0, text |-> << >>, at |-> 0, reply |-> "none",
     sent |-> << >>, was_auth |-> FALSE, lock_due |-> FALSE,
     esc |-> NoEscalation]

InboundInit ==
    /\ ticks = 0
    /\ user_sessions = [u \in Users |-> FALSE]
    /\ failed_auth_attempts = [u \in Users |-> NoAttempts]
    /\ last_permission_session = 0
    /\ out = NoRequest
    /\ verified = [c \in Channels |-> {}]
    /\ failStreak = [u \in Users |-> 0]
    /\ lockDue = [u \in Users |-> 0]
    /\ wa_user_sessions = [p \in Phones |-> FALSE]
    /\ call_sessions = [c \in Calls |-> NoCall]
    /\ logs = << >>
    /\ replies = 0
    /\ pending = NoEscalation

MonInit ==
    /\ now = Epoch
    /\ polls = 0
    /\ monitor = [s \in Sessions |-> NewMonitor(Epoch)]
    /\ ret = [s \in Sessions |-> [at |-> 0, event |-> NoEvent]]
    /\ events = [s \in Sessions |-> << >>]
    /\ escChanges = [s \in Sessions |-> << >>]

\* The time one iteration of the run loop takes: the sleep of poll_interval
\* or longer (the callback may block).
Steps == {poll_interval, debounce_seconds}

\* Mutant of Poll: last_event_time is one value for all monitors, as a
\* class attribute would be.
Poll_SharedDebounce(s) ==
    /\ polls < MaxPolls
    /\ \E output \in Texts, d \in Steps :
          LET r == check_once(monitor[s], output, now)
          IN  /\ monitor' = [x \in Sessions |->
                    IF x = s THEN r.mon
                    ELSE [monitor[x] EXCEPT
                             !.last_event_time = r.mon.last_event_time]]
              /\ ret' = [ret EXCEPT ![s] = [at |-> now, event |-> r.event]]
              /\ events' = [events EXCEPT ![s] =
                               IF r.event = NoEvent THEN @ ELSE Append(@, r.event)]
              /\ escChanges' = [escChanges EXCEPT ![s] =
                    IF /\ output # monitor[s].last_output
                       /\ detect_event(output, now).event_type # "normal"
                    THEN Append(@, now) ELSE @]
              /\ now' = now + d
    /\ polls' = polls + 1

\* One iteration of TmuxMonitor.run for session s: check_once, the callback
\* on an event, the sleep.
Poll(s) ==
    /\ polls < MaxPolls
    /\ \E output \in Texts, d \in Steps :
          LET r == check_once(monitor[s], output, now)
          IN  /\ monitor' = [monitor EXCEPT ![s] = r.mon]
              /\ ret' = [ret EXCEPT ![s] = [at |-> now, event |-> r.event]]
              /\ events' = [events EXCEPT ![s] =
                               IF r.event = NoEvent THEN @ ELSE Append(@, r.event)]
              /\ escChanges' = [escChanges EXCEPT ![s] =
                    IF /\ output # monitor[s].last_output
                       /\ detect_event(output, now).event_type # "normal"
                    THEN Append(@, now) ELSE @]
              /\ now' = now + d
    /\ polls' = polls + 1

\* The monitored target of the single-target runs.
Watched == {1}

\* main.py, telegram_tower.py, whatsapp_tower.py, inbound_server.py, and
\* event_detector.py run as a script without and with --hooks.
Programs ==
    {"main", "telegram", "whatsapp", "voice", "event_detector", "hooks"}

\* No connection handled yet.
NoConnection ==
    [payload |-> HookPayload(0, 0, "garbage", "", "", "absent"),
     event |-> NoEvent, diag |-> "none"]

\* HooksListener.__init__ and start().
HooksInit ==
    /\ served = 0
    /\ hook_conn = NoConnection
    /\ hook_events = << >>

\* The panes entry point p starts a run loop for: the alerters one thread
\* for each of TMUX_SESSIONS, main.py and the script their single pane.
Monitored(p) ==
    CASE p \in {"telegram", "whatsapp"} -> Sessions
      [] p \in {"main", "event_detector"} -> Watched
      [] OTHER -> {}

\* No affirmative reply is being handled.
NotApproving ==
    [pc |-> "idle", session_num |-> 0,
     result |-> [reply |-> "none", sent |-> << >>]]

\* The run loops and the listener of entry point p are running and nothing
\* has been stopped.
LoopsInit(p) ==
    /\ pane = CaptureOutcome("ok", << "" >>)
    /\ loops = [s \in Sessions |->
                   IF s \in Monitored(p) THEN "running" ELSE "none"]
    /\ stopping = FALSE
    /\ listener = IF p = "hooks" THEN "serving" ELSE "none"
    /\ turn = 0
    /\ approving = NotApproving

\* The state after the entry point p has started.
Started(p) ==
    /\ MonInit /\ InboundInit /\ HooksInit
    /\ capture = << "" >> /\ detected = NoEvent
    /\ LoopsInit(p)
    /\ program = p

Init == Started("main")

MonNext ==
    /\ \E s \in Watched : Poll(s)
    /\ UNCHANGED << ticks, tgVars, out, verified, authHistory, progVars,
                    otherVars >>

SpecMon == Init /\ [][MonNext]_vars

(***************************************************************************)
(* Telegram: the handlers as actions                                       *)
(***************************************************************************)
TgState ==
    [user_sessions |-> user_sessions,
     failed_auth_attempts |-> failed_auth_attempts,
     last_permission_session |-> last_permission_session]

\* The request of principal who on channel chan that a handler answered
\* with result r, and the principals verified after it.
Requested(chan, who, message, r) ==
    /\ out' = [chan |-> chan, who |-> who, text |-> message, at |-> now,
               reply |-> r.reply, sent |-> r.sent,
               was_auth |-> who \in verified[chan],
               lock_due |-> IF chan = "telegram" THEN now < lockDue[who]
                            ELSE FALSE,
               esc |-> pending]
    /\ verified' = [verified EXCEPT ![chan] =
                       CASE r.reply = "authenticated" -> @ \cup {who}
                         [] r.reply = "logged_out" -> @ \ {who}
                         [] OTHER -> @]

\* The handler's result r becomes the state.
TgApply(r, u, message) ==
    /\ user_sessions' = r.st.user_sessions
    /\ failed_auth_attempts' = r.st.failed_auth_attempts
    /\ last_permission_session' = r.st.last_permission_session
    /\ Requested("telegram", u, message, r)

\* The history of failed verifications: MAX_AUTH_ATTEMPTS in a row call
\* for a lockout of LOCKOUT_SECONDS and start the next window.
AuthHistoryStep(r, u) ==
    CASE r.reply = "invalid_code" ->
             IF failStreak[u] + 1 >= MAX_AUTH_ATTEMPTS
             THEN /\ failStreak' = [failStreak EXCEPT ![u] = 0]
                  /\ lockDue' = [lockDue EXCEPT ![u] = now + LOCKOUT_SECONDS]
             ELSE /\ failStreak' = [failStreak EXCEPT ![u] = @ + 1]
                  /\ UNCHANGED lockDue
      [] r.reply = "authenticated" ->
             /\ failStreak' = [failStreak EXCEPT ![u] = 0]
             /\ UNCHANGED lockDue
      [] OTHER -> UNCHANGED << failStreak, lockDue >>

\* A text message of user u arrives: handle_message.
TgMessage(u, message) ==
    \E r \in {TgHandleMessage(TgState, u, message, now, tmuxOk, waiting) :
                 tmuxOk \in BOOLEAN, waiting \in SUBSET Sessions} :
        TgApply(r, u, message) /\ AuthHistoryStep(r, u)

\* /logout of user u.
TgLogout(u) ==
    LET r == TgLogoutCommand(TgState, u)
    IN  TgApply(r, u, << "/logout" >>) /\ AuthHistoryStep(r, u)

\* Time passes between two requests.
TgSteps == {1, LOCKOUT_SECONDS - 1}

Tick ==
    /\ ticks < MaxTicks
    /\ \E d \in TgSteps : now' = now + d
    /\ ticks' = ticks + 1

\* The messages of the authentication runs: the codes of the time steps
\* around the current one, a code of no step, and two other texts.
AuthTexts(t) ==
    {TotpAt(TimeStep(t) + k) : k \in -2..2}
        \cup { << "0", "0", "0", "0", "0", "0" >>, << "Yes" >>, << "1" >> }

AuthNext ==
    \/ /\ Tick
       /\ UNCHANGED << monVars, tgVars, out, verified, authHistory, progVars,
                       otherVars >>
    \/ /\ \E u \in Users, m \in AuthTexts(now) : TgMessage(u, m)
       /\ UNCHANGED << now, ticks, monVars, progVars, otherVars >>
    \/ /\ \E u \in Users : TgLogout(u)
       /\ UNCHANGED << now, ticks, monVars, progVars, otherVars >>

AuthInit == Started("telegram")

SpecAuth == AuthInit /\ [][AuthNext]_vars

(***************************************************************************)
(* Escalations and replies: the run loops with their callbacks, and the    *)
(* replies of an authenticated principal                                   *)
(***************************************************************************)
\* Iterations of the run loops explored per behaviour of a program that
\* also handles replies.
MaxRuns == 1

\* Replies of the authenticated principal explored per behaviour.
MaxReplies == 2

\* Longest reply among the replies built from ReplyAlphabet.
MaxTextLen == 3

ReplyAlphabet == {"1", ":", " ", "fix", "Yes"}

ShortTexts == UNION {[1..n -> ReplyAlphabet] : n \in 1..MaxTextLen}

ExampleTexts ==
    { << "9" >>, << "2" >>, << "banana" >>, << "retry" >>, << "go" >>,
      << "/approve" >>, << "/retry" >>,
      << "1", ":", " ", "custom", " ", "text" >>,
      << "1", " ", "fix", ":", " ", "it" >>,
      << "0", ":", " ", "fix" >>, << "3", " ", "fix" >> }

ReplyTexts == ShortTexts \cup ExampleTexts

\* The escalation a callback delivers for event of session s.
Escalation(s, event, options) ==
    [seq |-> pending.seq + 1, session |-> s, event |-> event,
     options |-> options]

\* The handlers registered by main() of telegram_tower.py: the commands and
\* handle_message for every other text.
TgUpdate(st, u, message, t, tmuxOk, waiting, errored) ==
    CASE message = << "/approve" >> -> TgApproveCommand(st, u, tmuxOk, waiting)
      [] message = << "/retry" >> -> TgRetryCommand(st, u, tmuxOk, errored)
      [] message = << "/logout" >> -> TgLogoutCommand(st, u)
      [] OTHER -> TgHandleMessage(st, u, message, t, tmuxOk, waiting)

\* An update of user u arrives: a command or a text message.
TgRequest(u, m) ==
    \E r \in {TgUpdate(TgState, u, m, now, tmuxOk, waiting, errored) :
                 tmuxOk \in BOOLEAN, waiting \in SUBSET Sessions,
                 errored \in SUBSET Sessions} :
       TgApply(r, u, m) /\ AuthHistoryStep(r, u)

\* One iteration of a monitor thread of TelegramAlerter.start: check_once
\* and, on an event, on_event; bound: the iterations explored per behaviour.
TgIteration(s, bound) ==
    /\ program = "telegram"
    /\ polls < bound
    /\ Poll(s)
    /\ IF ret'[s].event # NoEvent
       THEN \E llm \in LlmReplies :
               /\ last_permission_session' =
                     TgOnEvent(TgState, s, ret'[s].event.event_type)
                         .last_permission_session
               /\ pending' = Escalation(s, ret'[s].event,
                                        FirstN(SummaryOptions(llm), 3))
       ELSE UNCHANGED << last_permission_session, pending >>
    /\ UNCHANGED << ticks, user_sessions, failed_auth_attempts, out, verified,
                    authHistory, progVars, wa_user_sessions, call_sessions,
                    logs, replies >>

TgRun(s) == TgIteration(s, MaxRuns)

\* The authorized user sends the current code.
TgLogin ==
    /\ program = "telegram"
    /\ ~user_sessions[AUTHORIZED_USER_ID]
    /\ TgMessage(AUTHORIZED_USER_ID, TotpAt(TimeStep(now)))
    /\ UNCHANGED << now, ticks, monVars, progVars, otherVars >>

\* A reply of the authenticated user; the replies after the first repeat it.
TgReply(m) ==
    /\ program = "telegram"
    /\ user_sessions[AUTHORIZED_USER_ID]
    /\ replies < MaxReplies
    /\ replies = 0 \/ m = out.text
    /\ TgRequest(AUTHORIZED_USER_ID, m)
    /\ replies' = replies + 1
    /\ UNCHANGED << now, ticks, monVars, progVars, wa_user_sessions,
                    call_sessions, logs, pending >>

\* One iteration of a monitor thread of WhatsAppAlerter.start: check_once
\* and, on an event, on_event, which keeps no state; bound: the iterations
\* explored per behaviour.
WaIteration(s, bound) ==
    /\ program = "whatsapp"
    /\ polls < bound
    /\ Poll(s)
    /\ IF ret'[s].event # NoEvent
       THEN \E llm \in LlmReplies :
               pending' = Escalation(s, ret'[s].event, SummaryOptions(llm))
       ELSE UNCHANGED pending
    /\ UNCHANGED << ticks, tgVars, out, verified, authHistory, progVars,
                    wa_user_sessions, call_sessions, logs, replies >>

WaRun(s) == WaIteration(s, MaxRuns)

\* A WhatsApp message without media of sender phone arrives.
WaMessage(phone, m) ==
    \E r \in {WaHandleCommand(wa_user_sessions, phone, m, now, tmuxOk,
                               waiting, errored) :
                 tmuxOk \in BOOLEAN, waiting \in SUBSET Sessions,
                 errored \in SUBSET Sessions} :
       /\ wa_user_sessions' = r.st
       /\ Requested("whatsapp", phone, m, r)

\* The owner's number.
YOUR_WHATSAPP == 1

\* The owner sends the current code.
WaLogin ==
    /\ program = "whatsapp"
    /\ ~wa_user_sessions[YOUR_WHATSAPP]
    /\ WaMessage(YOUR_WHATSAPP, TotpAt(TimeStep(now)))
    /\ UNCHANGED << now, ticks, monVars, tgVars, authHistory, progVars,
                    call_sessions, logs, replies, pending >>

\* A reply of the authenticated owner; the replies after the first repeat it.
WaReply(m) ==
    /\ program = "whatsapp"
    /\ wa_user_sessions[YOUR_WHATSAPP]
    /\ replies < MaxReplies
    /\ replies = 0 \/ m = out.text
    /\ WaMessage(YOUR_WHATSAPP, m)
    /\ replies' = replies + 1
    /\ UNCHANGED << now, ticks, monVars, tgVars, authHistory, progVars,
                    call_sessions, logs, pending >>

\* What the caller of the wrapper returns: one character, a word, nothing.
Responses ==
    { << >>, << "1" >>, << "2" >>, << "9" >>, << "1", "0" >>, << "banana" >> }

\* One iteration of ClaudeCodeWrapper.run for the wrapper's pane, of at
\* most bound per behaviour: check_once and, on an event, handle_event.
MainIteration(s, bound) ==
    /\ program = "main"
    /\ polls < bound
    /\ Poll(s)
    /\ IF ret'[s].event # NoEvent
       THEN \E llm \in LlmReplies, response \in Responses, tmuxOk \in BOOLEAN :
               LET r == handle_event(s, ret'[s].event, llm, response, tmuxOk)
               IN  /\ logs' = Append(logs, r.log)
                   /\ pending' = Escalation(s, ret'[s].event,
                                            SummaryOptions(llm))
                   /\ out' = [chan |-> "main", who |-> 0, text |-> response,
                              at |-> now, reply |-> r.log.outcome,
                              sent |-> r.sent, was_auth |-> FALSE,
                              lock_due |-> FALSE, esc |-> pending']
       ELSE UNCHANGED << logs, pending, out >>
    /\ UNCHANGED << ticks, tgVars, verified, authHistory, progVars,
                    wa_user_sessions, call_sessions, replies >>

MainRun(s) == MainIteration(s, MaxRuns)

ReplyNext ==
    \/ \E s \in Sessions : TgRun(s)
    \/ TgLogin
    \/ \E m \in ReplyTexts : TgReply(m)
    \/ \E s \in Sessions : WaRun(s)
    \/ WaLogin
    \/ \E m \in ReplyTexts : WaReply(m)
    \/ \E s \in Watched : MainRun(s)

ReplyInit == \E p \in {"main", "telegram", "whatsapp"} : Started(p)

SpecReplies == ReplyInit /\ [][ReplyNext]_vars

(***************************************************************************)
(* main.py alone: the wrapper's loop over several escalations              *)
(***************************************************************************)
\* Iterations of ClaudeCodeWrapper.run explored per behaviour.
MaxMainRuns == 2

MainLoop(s) == MainIteration(s, MaxMainRuns)

MainNext == \E s \in Watched : MainLoop(s)

SpecMain == Init /\ [][MainNext]_vars

(***************************************************************************)
(* The inbound channels with every principal                               *)
(***************************************************************************)
\* Calls of verify_code explored per call.
MaxVoiceTries == 3

\* The messages of the inbound runs.
InboundTexts(t) ==
    { TotpAt(TimeStep(t)), << "0", "0", "0", "0", "0", "0" >>, << "Yes" >>,
      << "1", ":", "fix" >>, << "retry" >>, << "logout" >>,
      << "/approve" >>, << "/retry" >>, << "/logout" >> }

\* What the caller says (SpeechResult, as phrases) or keys (Digits).
VoiceInputs ==
    { [speech |-> sp, digits |-> << >>] :
        sp \in { << "Yes" >>, << "retry" >>, << "status" >>, << "bye" >>,
                 << "banana" >> } }
      \cup { [speech |-> << >>, digits |-> << "1" >>] }

\* TelegramAlerter.on_event for the event that detect_event finds in text,
\* whenever a monitor thread hands it over.
TgAlert(s, text) ==
    /\ program = "telegram"
    /\ pending.seq < MaxRuns
    /\ detect_event(text, now).event_type # "normal"
    /\ \E llm \in LlmReplies :
          pending' = Escalation(s, detect_event(text, now),
                                FirstN(SummaryOptions(llm), 3))
    /\ last_permission_session' =
          TgOnEvent(TgState, s, detect_event(text, now).event_type)
              .last_permission_session
    /\ UNCHANGED << now, ticks, monVars, user_sessions, failed_auth_attempts,
                    out, verified, authHistory, progVars, wa_user_sessions,
                    call_sessions, logs, replies >>

\* POST /voice/answer for call sid.
VoiceAnswer(sid) ==
    /\ call_sessions' = answer_call(call_sessions, sid)
    /\ Requested("voice", sid, << "answer" >>,
                 Result(call_sessions', "greeting", << >>))

\* POST /voice/verify for call sid with the keyed digits.
VoiceVerify(sid, digits) ==
    /\ call_sessions[sid].attempts < MaxVoiceTries
    /\ \E r \in {verify_code(call_sessions, sid, digits, now, statuses) :
                    statuses \in StatusLists} :
          /\ call_sessions' = r.st
          /\ Requested("voice", sid, digits, r)

\* POST /voice/command for call sid.
VoiceCommand(sid, speech, digits) ==
    \E r \in {VoiceHandleCommand(call_sessions, sid, speech, digits, tmuxOk,
                                  statuses) :
                 tmuxOk \in BOOLEAN, statuses \in StatusLists} :
       /\ call_sessions' = r.st
       /\ Requested("voice", sid, speech \o digits, r)

InboundNext ==
    \/ \E s \in Sessions, text \in Texts : TgAlert(s, text)
    \/ /\ program = "telegram"
       /\ \E u \in Users, m \in InboundTexts(now) : TgRequest(u, m)
       /\ UNCHANGED << now, ticks, monVars, progVars, otherVars >>
    \/ /\ program = "whatsapp"
       /\ \E p \in Phones, m \in InboundTexts(now) : WaMessage(p, m)
       /\ UNCHANGED << now, ticks, monVars, tgVars, authHistory, progVars,
                       call_sessions, logs, replies, pending >>
    \/ /\ program = "voice"
       /\ \E sid \in Calls : VoiceAnswer(sid)
       /\ UNCHANGED << now, ticks, monVars, tgVars, authHistory, progVars,
                       wa_user_sessions, logs, replies, pending >>
    \/ /\ program = "voice"
       /\ \E sid \in Calls,
             digits \in {TotpAt(TimeStep(now)), TotpAt(TimeStep(now) + 2)} :
             VoiceVerify(sid, digits)
       /\ UNCHANGED << now, ticks, monVars, tgVars, authHistory, progVars,
                       wa_user_sessions, logs, replies, pending >>
    \/ /\ program = "voice"
       /\ \E sid \in Calls, in \in VoiceInputs :
             VoiceCommand(sid, in.speech, in.digits)
       /\ UNCHANGED << now, ticks, monVars, tgVars, authHistory, progVars,
                       wa_user_sessions, logs, replies, pending >>

InboundStart == \E p \in {"telegram", "whatsapp", "voice"} : Started(p)

SpecInbound == InboundStart /\ [][InboundNext]_vars

(***************************************************************************)
(* The classifier on the texts of a pane: detect_event, and the monitor    *)
(* of event_detector.py's script polling a pane that shows one text        *)
(***************************************************************************)
\* Longest run of equal lines in the middle of a text.
MaxFill == 11

\* Polls of the monitor explored per text.
MaxWatch == 2

\* The lines a text starts with.
HeadLines == { "Allow?", "Error: exit code 1", "running tests" }

\* The lines a text repeats in its middle.
FillLines == { "running tests", "", "Command failed", "Allow?" }

\* The lines a text ends with.
TailLines ==
    { "FAILED tests/test_auth.py", "  npm ERR! code 1",
      "Do you want to proceed? [y/N]", "Allow?", "running tests", "" }

\* The texts handed to detect_event: at most one line, a run of equal
\* lines, and at most two lines after it.
ClassifierTexts ==
    { head \o [i \in 1..n |-> fill] \o tail :
        head \in {<< >>} \cup {<< l >> : l \in HeadLines},
        n \in 0..MaxFill, fill \in FillLines,
        tail \in {<< >>} \cup {<< l >> : l \in TailLines}
                 \cup {<< l, m >> : l \in TailLines, m \in TailLines} }
      \ { << >> }

ClassifyInit ==
    /\ MonInit /\ InboundInit /\ HooksInit
    /\ capture \in ClassifierTexts /\ detected = NoEvent
    /\ LoopsInit("event_detector")
    /\ program = "event_detector"

\* detect_event(output) for the text.
Classify ==
    /\ detected = NoEvent
    /\ detected' = detect_event(capture, now)
    /\ UNCHANGED << now, monVars, ticks, tgVars, out, verified, authHistory,
                    program, capture, served, hook_conn, hook_events,
                    loopVars, otherVars >>

\* The time between two polls of the script's run loop: the sleep, or a
\* pause of the process longer than stuck_threshold.
WatchSteps == {poll_interval, stuck_threshold + 1}

\* One iteration of TmuxMonitor.run of the script for pane s, which shows
\* the text: check_once, the callback on an event, the sleep.
Watch(s) ==
    /\ polls < MaxWatch
    /\ LET r == check_once(monitor[s], capture, now)
       IN  /\ monitor' = [monitor EXCEPT ![s] = r.mon]
           /\ ret' = [ret EXCEPT ![s] = [at |-> now, event |-> r.event]]
           /\ events' = [events EXCEPT ![s] =
                            IF r.event = NoEvent THEN @ ELSE Append(@, r.event)]
           /\ escChanges' = [escChanges EXCEPT ![s] =
                 IF /\ capture # monitor[s].last_output
                    /\ detect_event(capture, now).event_type # "normal"
                 THEN Append(@, now) ELSE @]
    /\ \E d \in WatchSteps : now' = now + d
    /\ polls' = polls + 1
    /\ UNCHANGED << ticks, tgVars, out, verified, authHistory, progVars,
                    otherVars >>

ClassifyNext ==
    \/ Classify
    \/ \E s \in Watched : Watch(s)

SpecClassify == ClassifyInit /\ [][ClassifyNext]_vars

(***************************************************************************)
(* The run loop of event_detector.py with the captures of its pane         *)
(***************************************************************************)
\* Iterations of the loop explored per behaviour.
MaxCaptures == 3

\* One iteration of TmuxMonitor.run of the script for pane s: the capture,
\* check_once on what it returned, the callback on an event, the sleep.  An
\* exception of the capture ends the loop.
CaptureTick(s) ==
    /\ program = "event_detector"
    /\ loops[s] = "running"
    /\ polls < MaxCaptures
    /\ \E o \in CaptureOutcomes, d \in Steps :
          LET c == capture_tmux_pane(o)
              r == check_once(monitor[s], c.text, now)
          IN  /\ pane' = o
              /\ IF c.raised
                 THEN /\ loops' = [loops EXCEPT ![s] = "raised"]
                      /\ UNCHANGED << monitor, ret, events, escChanges >>
                 ELSE /\ loops' = loops
                      /\ monitor' = [monitor EXCEPT ![s] = r.mon]
                      /\ ret' = [ret EXCEPT ![s] = [at |-> now, event |-> r.event]]
                      /\ events' = [events EXCEPT ![s] =
                               IF r.event = NoEvent THEN @ ELSE Append(@, r.event)]
                      /\ escChanges' = [escChanges EXCEPT ![s] =
                            IF /\ c.text # monitor[s].last_output
                               /\ detect_event(c.text, now).event_type # "normal"
                            THEN Append(@, now) ELSE @]
              /\ now' = now + d
    /\ polls' = polls + 1
    /\ UNCHANGED << ticks, tgVars, out, verified, authHistory, program,
                    capture, detected, served, hook_conn, hook_events,
                    stopping, listener, turn, approving, otherVars >>

CaptureNext == \E s \in Watched : CaptureTick(s)

CaptureStart == Started("event_detector")

SpecCapture == CaptureStart /\ [][CaptureNext]_vars

(***************************************************************************)
(* The hooks listener of event_detector.py --hooks                         *)
(***************************************************************************)
\* Connections explored per behaviour.
MaxConnections == 3

\* Mutant of HookConnection: the listener goes through the debounce test of
\* the monitor of the watched pane and records its events there.
HookConnection_Debounced(p) ==
    /\ program = "hooks"
    /\ served < MaxConnections
    /\ LET r == handle_connection(p, now)
           s == CHOOSE x \in Watched : TRUE
           suppressed == r.event # NoEvent /\ DebouncedAway(monitor[s], now)
           event == IF suppressed THEN NoEvent ELSE r.event
       IN  /\ hook_conn' = [payload |-> p, event |-> event, diag |-> r.diag]
           /\ hook_events' = IF event = NoEvent THEN hook_events
                             ELSE Append(hook_events, event)
           /\ monitor' = IF event = NoEvent THEN monitor
                         ELSE [monitor EXCEPT ![s].last_event_time = now]
    /\ now' = now + (IF ReadInTime(p) THEN p.delay ELSE READ_TIMEOUT)
    /\ served' = served + 1
    /\ UNCHANGED << polls, ret, events, escChanges, ticks, tgVars, out,
                    verified, authHistory, program, capture, detected,
                    loopVars, otherVars >>

\* One connection to the socket with payload p: _handle_connection, which
\* returns when the read has ended, and the callback on an event.
HookConnection(p) ==
    /\ program = "hooks"
    /\ served < MaxConnections
    /\ LET r == handle_connection(p, now)
       IN  /\ hook_conn' = [payload |-> p, event |-> r.event, diag |-> r.diag]
           /\ hook_events' = IF r.event = NoEvent THEN hook_events
                             ELSE Append(hook_events, r.event)
    /\ now' = now + (IF ReadInTime(p) THEN p.delay ELSE READ_TIMEOUT)
    /\ served' = served + 1
    /\ UNCHANGED << monVars, ticks, tgVars, out, verified, authHistory,
                    program, capture, detected, loopVars, otherVars >>

HooksNext == \E p \in HookPayloads : HookConnection(p)

HooksStart == Started("hooks")

SpecHooks == HooksStart /\ [][HooksNext]_vars

(***************************************************************************)
(* Claims about TmuxMonitor.check_once                                     *)
(***************************************************************************)
IsEscalation(e) == e.event_type \in {"error", "permission"}

\* An error or permission event of session s was returned at time t.
EmittedAt(s, t) ==
    \E i \in 1..Len(events[s]) :
        IsEscalation(events[s][i]) /\ events[s][i].timestamp = t

\* No event of any kind was returned for s less than debounce_seconds
\* before time t.
QuietBefore(s, t) ==
    \A i \in 1..Len(events[s]) :
        events[s][i].timestamp < t =>
            t - events[s][i].timestamp >= debounce_seconds

\* C1 as stated: of two error/permission changes within the debounce
\* window, exactly the first is emitted.
C1_ExactlyTheFirst ==
    \A s \in Sessions : \A i, j \in 1..Len(escChanges[s]) :
        (i < j /\ escChanges[s][j] - escChanges[s][i] < debounce_seconds)
            => /\ EmittedAt(s, escChanges[s][i])
               /\ ~EmittedAt(s, escChanges[s][j])

\* C1 (amended): two error/permission changes within the debounce window
\* produce at most one emitted event, exactly the first one when no event
\* was emitted for the target less than debounce_seconds before the first
\* change; and any two error/permission events of a target are at least
\* debounce_seconds apart.
C1_Debounce ==
    \A s \in Sessions :
        /\ \A i, j \in 1..Len(escChanges[s]) :
              (i < j /\ escChanges[s][j] - escChanges[s][i] < debounce_seconds)
                  => /\ ~(EmittedAt(s, escChanges[s][i])
                            /\ EmittedAt(s, escChanges[s][j]))
                     /\ QuietBefore(s, escChanges[s][i])
                            => (EmittedAt(s, escChanges[s][i])
                                  /\ ~EmittedAt(s, escChanges[s][j]))
        /\ \A i, j \in 1..Len(events[s]) :
              (i < j /\ IsEscalation(events[s][i]) /\ IsEscalation(events[s][j]))
                  => events[s][j].timestamp - events[s][i].timestamp
                        >= debounce_seconds

\* Two error/permission changes within the window, the first emitted and
\* the second suppressed, and a later one emitted after the window.
C1_Witness ==
    \E s \in Sessions :
        /\ \E i, j \in 1..Len(escChanges[s]) :
              /\ i < j
              /\ escChanges[s][j] - escChanges[s][i] < debounce_seconds
              /\ EmittedAt(s, escChanges[s][i])
              /\ ~EmittedAt(s, escChanges[s][j])
        /\ \E i, j \in 1..Len(events[s]) :
              i < j /\ IsEscalation(events[s][i]) /\ IsEscalation(events[s][j])

\* The STUCK events of session s emitted since its text last changed.
StuckSinceChange(s) ==
    {i \in 1..Len(events[s]) :
        /\ events[s][i].event_type = "stuck"
        /\ events[s][i].timestamp > monitor[s].last_change_time}

\* C9: once a poll finds the text unchanged for more than stuck_threshold a
\* STUCK event has been emitted for this idle stretch, and two STUCK events
\* of a target are more than debounce_seconds apart: the polls in the
\* debounce_seconds after the first STUCK event of an idle stretch leave it
\* the only one.
C9_StalledOnce ==
    \A s \in Sessions :
        /\ ret[s].at - monitor[s].last_change_time > stuck_threshold
              => StuckSinceChange(s) # {}
        /\ \A i, j \in 1..Len(events[s]) :
              (i < j /\ events[s][i].event_type = "stuck"
                     /\ events[s][j].event_type = "stuck")
                  => events[s][j].timestamp - events[s][i].timestamp
                        > debounce_seconds
        /\ \A i \in StuckSinceChange(s) :
              (/\ \A j \in StuckSinceChange(s) : i <= j
               /\ ret[s].at - events[s][i].timestamp <= debounce_seconds)
                  => StuckSinceChange(s) = {i}

\* A STUCK event was emitted just over the threshold and a later poll, at
\* most debounce_seconds after it and with the text still unchanged,
\* returned nothing.
C9_Witness ==
    \E s \in Sessions : \E i \in StuckSinceChange(s) :
        /\ events[s][i].timestamp - monitor[s].last_change_time
              = stuck_threshold + poll_interval
        /\ ret[s].at > events[s][i].timestamp
        /\ ret[s].at - events[s][i].timestamp <= debounce_seconds
        /\ ret[s].event = NoEvent
        /\ StuckSinceChange(s) = {i}

(***************************************************************************)
(* Claims about the Telegram authentication                                *)
(***************************************************************************)
\* The latest request was a code verification attempt of the Telegram user:
\* a six-digit message of the authorized, not authenticated user.
IsVerificationAttempt ==
    /\ out.chan = "telegram"
    /\ is_authorized(out.who)
    /\ IsDigit(Strip(out.text)) /\ Len(Strip(out.text)) = 6
    /\ out.reply \in {"locked", "invalid_code", "authenticated"}

\* C2: a verification attempt made less than LOCKOUT_SECONDS after
\* MAX_AUTH_ATTEMPTS failed verifications in a row is answered with the
\* locked-out response and does not authenticate.
C2_LockedOutAfterFailures ==
    (IsVerificationAttempt /\ out.lock_due) => out.reply = "locked"

(***************************************************************************)
(* Claims about the inbound channels                                       *)
(***************************************************************************)
\* C3: on every inbound channel (Telegram, WhatsApp, voice) a request makes
\* a send-keys call only if its principal passed a code verification on that
\* channel earlier and has not logged out since; a request of a principal
\* that is not verified makes none.
C3_OnlyVerifiedDispatch ==
    /\ out.sent # << >> => out.chan \in Channels /\ out.was_auth
    /\ (out.chan \in Channels /\ ~out.was_auth) => out.sent = << >>

\* A verified principal's request was dispatched while another principal of
\* the channel is not verified.
C3_Witness ==
    /\ out.sent # << >>
    /\ out.was_auth
    /\ out.chan = "voice"
    /\ verified["voice"] # Calls

(***************************************************************************)
(* Claims about the routing of replies                                     *)
(***************************************************************************)
\* The request was a reply of a principal the program accepts replies
\* from: a verified chat principal, or the caller of the wrapper.
IsReply(o) ==
    \/ o.chan \in {"telegram", "whatsapp"} /\ o.was_auth
    \/ o.chan = "main"

AffirmativeWords == TgApproveWords \cup WaApproveWords

IsAffirmative(text) ==
    Lower(Strip(text)) \in AffirmativeWords \/ text = << "/approve" >>

IsRetryWord(text) ==
    Lower(Strip(text)) \in WaRetryWords \/ text = << "/retry" >>

\* The number of digits the text starts with.
RECURSIVE LeadingDigits(_)
LeadingDigits(text) ==
    IF text # << >> /\ Head(text) \in DigitChars
    THEN 1 + LeadingDigits(Tail(text)) ELSE 0

\* "<index>:<text>" or "<index> <text>": digits, then ":" or " ".
IsIndexForm(text) ==
    LET t == Strip(text)
        k == LeadingDigits(t)
    IN  k >= 1 /\ k < Len(t) /\ t[k + 1] \in {":", " "}

IndexOfReply(text) ==
    DecimalValue(SubSeq(Strip(text), 1, LeadingDigits(Strip(text))))

FreeTextOfReply(text) ==
    Strip(SubSeq(Strip(text), LeadingDigits(Strip(text)) + 2, Len(Strip(text))))

\* The text is the selector of an option the escalation offered.
IsOfferedSelector(text, esc) ==
    \E i \in 1..Len(esc.options) : esc.options[i].key = Strip(text)

\* The request made one send-keys call, with this session and instruction.
SentExactly(o, session, instruction) ==
    /\ Len(o.sent) = 1
    /\ o.sent[1].session = session
    /\ o.sent[1].instruction = instruction

\* C4: on Telegram an affirmative reply of the verified user, when the
\* latest escalation is a permission event whose session is remembered,
\* sends "yes" to that session and clears the memory; and the same reply
\* once more, with no escalation in between, sends nothing.
C4_ConsumedOnce ==
    [][/\ (/\ program = "telegram"
           /\ replies = 0 /\ replies' = 1
           /\ IsAffirmative(out'.text)
           /\ pending.event.event_type = "permission")
          => /\ SentExactly(out', pending.session, << "yes" >>)
             /\ last_permission_session' = 0
       /\ (/\ program = "telegram"
           /\ replies = 1 /\ replies' = 2
           /\ IsAffirmative(out.text)
           /\ out.esc.event.event_type = "permission"
           /\ pending = out.esc)
          => out'.sent = << >>]_vars

\* C5: a reply that is the selector of an option of the latest escalation
\* sends that option's instruction to the session of the escalation.
C5_SelectorDispatches ==
    (/\ IsReply(out)
     /\ out.chan = "main" \/ replies = 1
     /\ out.esc.seq > 0
     /\ IsOfferedSelector(out.text, out.esc))
        => SentExactly(out, out.esc.session,
                       InstructionFor(out.esc.options, Strip(out.text)))

\* C6: a reply "<index>:<text>" or "<index> <text>" with the index of a
\* session and a text that is not empty sends the text, as it is, to that
\* session.
C6_IndexFormDispatches ==
    (/\ out.chan \in {"telegram", "whatsapp"}
     /\ out.was_auth
     /\ IsIndexForm(out.text)
     /\ IndexOfReply(out.text) \in Sessions
     /\ FreeTextOfReply(out.text) # << >>)
        => SentExactly(out, IndexOfReply(out.text), FreeTextOfReply(out.text))

\* The step handled a request.
Handled == replies' # replies \/ out' # out

\* The monitors are what they were; in the wrapper, whose handler runs
\* inside the iteration that polled, they are what check_once left.
MonitorKept ==
    IF program = "main"
    THEN monitor' = [monitor EXCEPT ![out'.esc.session] =
                        check_once(@, out'.esc.event.raw_output, now).mon]
    ELSE monitor' = monitor

\* C7 as stated: a reply that is no offered selector, not of the index
\* form and no affirmative word sends nothing and leaves the monitors alone.
C7_NoMatchAsStated ==
    [][(/\ Handled
        /\ IsReply(out')
        /\ ~IsOfferedSelector(out'.text, out'.esc)
        /\ ~IsIndexForm(out'.text)
        /\ ~IsAffirmative(out'.text))
          => out'.sent = << >> /\ MonitorKept]_vars

\* C7 (amended): a reply that is no offered selector, not of the index
\* form, no affirmative word and no retry word (WhatsApp's retry, again,
\* rerun; Telegram's /retry) sends nothing and leaves the fields of every
\* monitor alone.
C7_NoMatch ==
    [][(/\ Handled
        /\ IsReply(out')
        /\ ~IsOfferedSelector(out'.text, out'.esc)
        /\ ~IsIndexForm(out'.text)
        /\ ~IsAffirmative(out'.text)
        /\ ~IsRetryWord(out'.text))
          => out'.sent = << >> /\ MonitorKept]_vars

\* "banana" was answered with "didn't understand" after an escalation.
C7_Witness ==
    /\ IsReply(out)
    /\ out.text = << "banana" >>
    /\ out.reply \in {"unknown", "no_match"}
    /\ out.esc.seq > 0
    /\ out.sent = << >>

\* C8: a reply to an escalation and the same reply once more, with no
\* escalation in between, make at most one send-keys call together.
C8_ReplayInjectsOnce ==
    [][(/\ replies >= 1 /\ replies' = replies + 1
        /\ out'.text = out.text
        /\ out.esc.seq > 0
        /\ pending = out.esc)
          => Len(out.sent) + Len(out'.sent) <= 1]_vars

\* C10: a pane showing "FAILED tests/test_auth.py" was escalated as an
\* error event with that line as evidence; the reply "9" to it sends an
\* instruction to the session of the escalation and, the send succeeding,
\* the log gets an entry with outcome "sent".
C10_StopDispatched ==
    (/\ IsReply(out)
     /\ out.text = << "9" >>
     /\ out.esc.event.event_type = "error"
     /\ \E i \in 1..Len(out.esc.event.key_lines) :
           out.esc.event.key_lines[i] = "FAILED tests/test_auth.py")
        => /\ Len(out.sent) = 1
           /\ out.sent[1].session = out.esc.session
           /\ out.sent[1].ok
                 => /\ logs # << >>
                    /\ logs[Len(logs)].outcome = "sent"
                    /\ logs[Len(logs)].human_response = << "9" >>

Principals(chan) ==
    CASE chan = "telegram" -> Users
      [] chan = "whatsapp" -> Phones
      [] chan = "voice" -> Calls

\* The latest request was a code verification on one of the channels.
IsVerification(o) ==
    /\ o.chan \in Channels
    /\ o.reply \in {"authenticated", "invalid_code", "locked", "too_many"}

\* C12: a code verification of principal P (accepted, rejected or locked
\* out) leaves the authenticated flag, the failure count and the lockout of
\* every other principal of the channel unchanged.
C12_PrincipalScoped ==
    [][IsVerification(out') =>
          \A q \in Principals(out'.chan) \ {out'.who} :
             /\ user_sessions'[q] = user_sessions[q]
             /\ failed_auth_attempts'[q] = failed_auth_attempts[q]
             /\ wa_user_sessions'[q] = wa_user_sessions[q]
             /\ call_sessions'[q] = call_sessions[q]]_vars

\* A call's third code was rejected while the other call is authenticated.
C12_Witness ==
    /\ out.chan = "voice" /\ out.reply = "too_many"
    /\ \E q \in Calls \ {out.who} : call_sessions[q].authenticated
    /\ ~call_sessions[out.who].authenticated

\* C13: a verification attempt of a Telegram user that is not locked out
\* and presents a code verify_totp accepts is answered "authenticated", and
\* after it the user is authenticated and the user's failure count is zero.
C13_SuccessResets ==
    (/\ IsVerificationAttempt
     /\ out.reply # "locked"
     /\ verify_totp(Strip(out.text), out.at))
    => /\ out.reply = "authenticated"
       /\ user_sessions[out.who]
       /\ failed_auth_attempts[out.who] = NoAttempts

\* A code was accepted after MAX_AUTH_ATTEMPTS failures in a row.
C13_Witness ==
    /\ IsVerificationAttempt
    /\ out.reply = "authenticated"
    /\ out.lock_due
    /\ user_sessions[out.who]
    /\ failed_auth_attempts[out.who].count = 0

\* C14: a verification attempt that is not locked out and presents the code
\* of the time step k steps from the current one is accepted when k is -1,
\* 0 or 1 and rejected when k is -2 or 2.
C14_DriftOfOneStep ==
    (IsVerificationAttempt /\ out.reply # "locked")
    => \A k \in -2..2 :
          Strip(out.text) = TotpAt(TimeStep(out.at) + k)
          => (out.reply = "authenticated" <=> k \in -1..1)

\* The code of the step before the current one was accepted after the
\* clock advanced.
C14_Witness ==
    /\ IsVerificationAttempt
    /\ out.reply = "authenticated"
    /\ Strip(out.text) = TotpAt(TimeStep(out.at) - 1)
    /\ ticks > 0

(***************************************************************************)
(* Claims about detect_event                                               *)
(***************************************************************************)
\* Some pattern of the list matches the line.
MatchesAny(patterns, line) ==
    \E p \in 1..Len(patterns) : ReSearch(patterns[p], line)

\* The lines of the text that match a pattern of the list.
MatchingLines(patterns, text) ==
    {i \in 1..Len(text) : MatchesAny(patterns, text[i])}

\* C15: for a text in which a line matches an error pattern, detect_event
\* returns an error event, also when a permission pattern matches within
\* the last 10 lines, and the event has between 1 and 5 key lines.
C15_ErrorFirst ==
    (detected # NoEvent /\ MatchingLines(ERROR_PATTERNS, capture) # {})
    => /\ detected.event_type = "error"
       /\ Len(detected.key_lines) \in 1..5

\* An error event with five key lines was returned for a text with a
\* permission prompt in its last 10 lines and an error line before them.
C15_Witness ==
    /\ detected # NoEvent
    /\ detected.event_type = "error"
    /\ Len(detected.key_lines) = 5
    /\ \E i \in MatchingLines(PERMISSION_PATTERNS, capture) :
          i > Len(capture) - 10
    /\ \E i \in MatchingLines(ERROR_PATTERNS, capture) :
          i <= Len(capture) - 10

\* C16 as stated: for a text in which no line matches an error pattern and
\* every line matching a permission pattern lies before the last 10 lines
\* of the text, blank lines at the end counted, detect_event returns normal.
C16_RecentOnlyAsStated ==
    (/\ detected # NoEvent
     /\ MatchingLines(ERROR_PATTERNS, capture) = {}
     /\ \A i \in MatchingLines(PERMISSION_PATTERNS, capture) :
           i <= Len(capture) - 10)
    => detected.event_type = "normal"

\* The last line of a text that is not blank, 0 if all are blank.
LastContentLine(text) ==
    LET content == {i \in 1..Len(text) : ~IsBlank(text[i])}
    IN  IF content = {} THEN 0
        ELSE CHOOSE i \in content : \A j \in content : j <= i

\* C16: for a text in which no line matches an error pattern and every
\* line matching a permission pattern lies before the last 10 lines that
\* end with the text's last non-blank line, detect_event returns normal.
C16_RecentOnly ==
    (/\ detected # NoEvent
     /\ MatchingLines(ERROR_PATTERNS, capture) = {}
     /\ \A i \in MatchingLines(PERMISSION_PATTERNS, capture) :
           i <= LastContentLine(capture) - 10)
    => detected.event_type = "normal"

\* Normal was returned for a text with a permission prompt followed by ten
\* or more lines, the last of them not blank.
C16_Witness ==
    /\ detected # NoEvent
    /\ detected.event_type = "normal"
    /\ MatchingLines(PERMISSION_PATTERNS, capture) # {}
    /\ \A i \in MatchingLines(PERMISSION_PATTERNS, capture) :
          i <= LastContentLine(capture) - 10

\* The events detect_event and the monitor produced for the text.
Observed == ({detected} \cup {ret[s].event : s \in Watched}) \ {NoEvent}

\* C17 as stated: the confidence is fixed per kind, 0.95 for a permission
\* event, and every event of another kind carries less.
C17_PermissionHighestAsStated ==
    \A e \in Observed :
       IF e.event_type = "permission" THEN e.confidence = 95
       ELSE e.confidence < 95

\* C17: the confidence is fixed per kind: 0.95 for permission, 0.9 for
\* error, 0.8 for stuck, in this order; a normal result carries 1.0.
C17_ConfidencePerKind ==
    \A e \in Observed :
       CASE e.event_type = "permission" -> e.confidence = 95
         [] e.event_type = "error" -> e.confidence = 90 /\ e.confidence < 95
         [] e.event_type = "stuck" -> e.confidence = 80 /\ e.confidence < 90
         [] OTHER -> e.event_type = "normal" /\ e.confidence = 100

\* The text was classified as a permission prompt, and the monitor, idle on
\* it for longer than stuck_threshold, returned a stuck event.
C17_Witness ==
    /\ detected # NoEvent
    /\ detected.event_type = "permission"
    /\ \E s \in Watched : /\ ret[s].event # NoEvent
                          /\ ret[s].event.event_type = "stuck"

(***************************************************************************)
(* Claims about the hooks listener                                         *)
(***************************************************************************)
\* The payload declares one of the kinds the listener knows.
KnownKind(p) ==
    \/ p.hook_event_name = "PermissionRequest"
    \/ /\ p.hook_event_name = "Notification"
       /\ p.notification_type = "permission_prompt"

\* C18: for every connection the listener handles, the first or a later
\* one, an event is handed to the callback if and only if the payload
\* arrives within the read timeout, is a JSON object and declares a known
\* kind; otherwise no event is handed over.
C18_EventIffKnownPayload ==
    served > 0
    => LET p == hook_conn.payload
       IN  hook_conn.event # NoEvent
           <=> /\ p.size > 0 /\ p.delay < READ_TIMEOUT
               /\ p.form = "object"
               /\ KnownKind(p)

(***************************************************************************)
(* Claims about the interaction log                                        *)
(***************************************************************************)
\* The reply is the key of an option of the escalation.
ReplyOffered(text, esc) ==
    \E i \in 1..Len(esc.options) : esc.options[i].key = text

ErrorClass(o) ==
    \/ o.reply \in {"invalid_code", "locked", "too_many", "failed", "unknown"}
    \/ \E i \in 1..Len(o.sent) : ~o.sent[i].ok

\* C20: every request on an inbound channel that ends in a failed dispatch,
\* a rejected code or lockout, or a reply that was not understood appends
\* an entry with an outcome tag to the interaction log.
C20_ErrorsAudited ==
    [][(/\ pending' = pending
        /\ out'.chan \in Channels
        /\ ErrorClass(out'))
       => /\ Len(logs') = Len(logs) + 1
          /\ logs'[Len(logs')].outcome
                \in {"sent", "send_failed", "no_match", "expired"}]_vars

(***************************************************************************)
(* Claims about the monitor's stall detection and its timestamps           *)
(***************************************************************************)
\* The latest poll of session s saw the text change to one that classifies
\* as error or permission.
EscalatingChangeNow(s) ==
    /\ escChanges[s] # << >>
    /\ escChanges[s][Len(escChanges[s])] = ret[s].at

\* C21: a STUCK event does not suppress an error or permission event: a
\* change to an error or permission text is emitted unless an error or
\* permission event of the target was emitted less than debounce_seconds
\* before.  And an error or permission event does not postpone a STUCK
\* event: a poll that finds the text unchanged for more than
\* stuck_threshold returns STUCK unless a STUCK event was emitted at most
\* debounce_seconds before.
C21_IndependentDebounce ==
    \A s \in Sessions :
        /\ (/\ EscalatingChangeNow(s)
            /\ \A i \in 1..Len(events[s]) :
                  (IsEscalation(events[s][i])
                        /\ events[s][i].timestamp < ret[s].at)
                     => ret[s].at - events[s][i].timestamp >= debounce_seconds)
           => ret[s].event # NoEvent
        /\ (/\ ret[s].at - monitor[s].last_change_time > stuck_threshold
            /\ \A i \in 1..Len(events[s]) :
                  (events[s][i].event_type = "stuck"
                        /\ events[s][i].timestamp < ret[s].at)
                     => ret[s].at - events[s][i].timestamp > debounce_seconds)
           => ret[s].event # NoEvent /\ ret[s].event.event_type = "stuck"


\* A monitor that has seen no output since it was created: every capture
\* was empty, so last_output and last_change_time are those of __init__.
NeverProducedOutput(s) ==
    /\ monitor[s].last_output = << "" >>
    /\ monitor[s].last_change_time <= Epoch

\* C22: a target whose every capture is empty gets no STUCK event on a
\* tick at which stuck_threshold has not elapsed since the monitor was
\* created.
C22_NoStallBeforeThreshold ==
    \A s \in Sessions :
        NeverProducedOutput(s)
            => \A i \in 1..Len(events[s]) :
                  events[s][i].event_type = "stuck"
                     => events[s][i].timestamp - Epoch > stuck_threshold

\* A silent target is polled until the threshold has passed and is then
\* reported as stuck.
C22_Witness ==
    \E s \in Sessions :
        /\ NeverProducedOutput(s)
        /\ Len(events[s]) = 1
        /\ events[s][1].event_type = "stuck"
        /\ events[s][1].timestamp = ret[s].at


\* C23: a tick on which the captured text differs from the previous
\* capture resets the idle clock (last_change_time) to the time of the tick
\* and returns no STUCK event, so a target whose text differs on every
\* tick never gets one.
C23_ChangeResetsIdleClock ==
    [][\A s \in Sessions :
          monitor'[s].last_output # monitor[s].last_output
             => /\ monitor'[s].last_change_time = now
                /\ ret'[s].at = now
                /\ ret'[s].event.event_type # "stuck"]_vars

\* A target whose text changed on every one of its ticks, the last of them
\* more than stuck_threshold after the monitor was created, without a
\* STUCK event.
C23_Witness ==
    \E s \in Sessions :
        /\ polls >= 4
        /\ Len(escChanges[s]) = polls
        /\ ret[s].at - Epoch > stuck_threshold
        /\ monitor[s].last_change_time = ret[s].at
        /\ \A i \in 1..Len(events[s]) : events[s][i].event_type # "stuck"


\* C24: last_event_time of a target never decreases, and it changes only
\* on a tick of that target that returns an event, to the time of that
\* tick.
C24_LastEventTimeMonotone ==
    [][\A s \in Sessions :
          /\ monitor'[s].last_event_time >= monitor[s].last_event_time
          /\ monitor'[s].last_event_time # monitor[s].last_event_time
                => /\ ret'[s].at = now
                   /\ ret'[s].event # NoEvent
                   /\ ret'[s].event.timestamp = now
                   /\ monitor'[s].last_event_time = now
                   /\ events'[s] = Append(events[s], ret'[s].event)]_vars

\* last_event_time has moved twice, and a later tick without an event has
\* left it where it was.
C24_Witness ==
    \E s \in Sessions :
        /\ Len(events[s]) = 2
        /\ events[s][1].timestamp < events[s][2].timestamp
        /\ monitor[s].last_event_time = events[s][2].timestamp
        /\ ret[s].event = NoEvent
        /\ ret[s].at > monitor[s].last_event_time

(***************************************************************************)
(* Claims about failing captures                                           *)
(***************************************************************************)
CaptureFailed(o) == o.kind \in {"timeout", "missing"}

\* C25: a tick whose capture runs into the timeout or names a missing
\* target does what check_once does on the empty text: the monitor's
\* fields and the returned event are those of the empty text, the event is
\* no error event, and the loop goes on running.
C25_FailedCaptureIsEmptyText ==
    [][\A s \in Watched :
          (polls' = polls + 1 /\ CaptureFailed(pane'))
             => /\ loops'[s] = "running"
                /\ monitor'[s] = check_once(monitor[s], << "" >>, now).mon
                /\ ret'[s] = [at |-> now,
                              event |-> check_once(monitor[s], << "" >>, now).event]
                /\ ret'[s].event.event_type \notin {"error", "permission"}]_vars

\* A capture failed after the pane had shown an error: the tick took it
\* for a change to the empty text and the loop runs on.
C25_Witness ==
    \E s \in Watched :
        /\ CaptureFailed(pane)
        /\ events[s] # << >>
        /\ ret[s].event = NoEvent
        /\ monitor[s].last_output = << "" >>
        /\ monitor[s].last_change_time = ret[s].at
        /\ loops[s] = "running"

(***************************************************************************)
(* Stopping the alerter of whatsapp_tower.py and the hooks listener        *)
(***************************************************************************)
\* Iterations of the monitor threads explored per behaviour.
MaxLoopPolls == 2

\* An iteration of the thread of session s past the explored ones: the
\* pane shows what it showed, check_once returns None, and of the
\* iteration only the thread's turn is kept.
AlerterLoopOn(s) ==
    /\ program = "whatsapp"
    /\ polls >= MaxLoopPolls
    /\ turn' = s
    /\ UNCHANGED << now, monVars, ticks, tgVars, out, verified, authHistory,
                    program, capture, detected, served, hook_conn,
                    hook_events, pane, loops, stopping, listener, approving,
                    otherVars >>

\* One iteration of the thread TmuxMonitor.run of session s, which is
\* "while True": nothing the iteration reads can end the loop.
AlerterLoop(s) ==
    /\ loops[s] = "running"
    /\ \/ WaIteration(s, MaxLoopPolls)
       \/ AlerterLoopOn(s)

\* WhatsAppAlerter.stop: self.running = False, which no thread reads.
AlerterStop ==
    /\ program = "whatsapp"
    /\ ~stopping
    /\ stopping' = TRUE
    /\ UNCHANGED << now, monVars, ticks, tgVars, out, verified, authHistory,
                    program, capture, detected, served, hook_conn,
                    hook_events, pane, loops, listener, turn, approving, otherVars >>

\* A connection while the server is open.
ListenerConnection(p) ==
    /\ listener = "serving"
    /\ HookConnection(p)

\* HooksListener.stop: the server is closed and waited for, the socket
\* file removed; serve_forever ends.
ListenerStop ==
    /\ program = "hooks"
    /\ listener = "serving"
    /\ stopping' = TRUE
    /\ listener' = "closed"
    /\ UNCHANGED << now, monVars, ticks, tgVars, out, verified, authHistory,
                    program, capture, detected, served, hook_conn,
                    hook_events, pane, loops, turn, approving, otherVars >>

ShutdownNext ==
    \/ \E s \in Sessions : AlerterLoop(s)
    \/ AlerterStop
    \/ \E p \in HookPayloads : ListenerConnection(p)
    \/ ListenerStop

ShutdownStart == Started("whatsapp") \/ Started("hooks")

\* An explored iteration of the thread of session s can run: check_once
\* and the callback are always possible.
LoopCanRun(s) ==
    /\ program = "whatsapp"
    /\ loops[s] = "running"
    /\ polls < MaxLoopPolls

\* The operating system schedules every thread that can run: weak
\* fairness of the thread's iterations, for the explored ones with their
\* enabling condition written out.
LoopFairness(s) ==
    /\ []<>(~LoopCanRun(s)) \/ []<><<AlerterLoop(s)>>_vars
    /\ WF_vars(loops[s] = "running" /\ AlerterLoopOn(s))

\* Every thread is scheduled fairly; stop() is called or not.
SpecShutdown ==
    /\ ShutdownStart
    /\ [][ShutdownNext]_vars
    /\ \A s \in Sessions : LoopFairness(s)

(***************************************************************************)
(* Claims about shutdown                                                   *)
(***************************************************************************)
\* C26: once stop() has been called, every run loop of a target and the
\* listener eventually end.
C26_StopEndsLoops ==
    stopping ~> /\ \A s \in Sessions : loops[s] # "running"
                /\ listener # "serving"

(***************************************************************************)
(* The monitor threads of telegram_tower.py, interleaved                   *)
(***************************************************************************)
\* Iterations of all threads together explored per behaviour.
MaxTargetPolls == 3

\* One iteration of the thread of session s.
TargetTick(s) == TgIteration(s, MaxTargetPolls)

TargetsNext == \E s \in Sessions : TargetTick(s)

TargetsStart == Started("telegram")

SpecTargets == TargetsStart /\ [][TargetsNext]_vars

(***************************************************************************)
(* Claims about the independence of the targets                            *)
(***************************************************************************)
\* The step is a tick of the thread of session a.
TickOf(a) == ret'[a] # ret[a]

\* A tick of a leaves the monitor of b and the events of b as they are.
LeavesMonitorOf(b) ==
    /\ monitor'[b] = monitor[b]
    /\ ret'[b] = ret[b]
    /\ events'[b] = events[b]
    /\ escChanges'[b] = escChanges[b]

C28_FailureReported ==
    /\ Len(out.sent) <= 1
    /\ \A i \in 1..Len(out.sent) :
          ~out.sent[i].ok => out.reply \in {"failed", "send_failed"}

(***************************************************************************)
(* Claims about the options of an escalation                               *)
(***************************************************************************)
\* C29: the options of every escalation handed to a delivery channel have
\* pairwise distinct keys.
C29_DistinctSelectors ==
    \A i \in 1..Len(pending.options), j \in 1..Len(pending.options) :
        i # j => pending.options[i].key # pending.options[j].key

(***************************************************************************)
(* Claims about the evidence of an error event                             *)
(***************************************************************************)
\* The earliest pattern of ERROR_PATTERNS that matches a line of the text.
EarliestErrorPattern(text) ==
    CHOOSE p \in 1..Len(ERROR_PATTERNS) :
        /\ \E i \in 1..Len(text) : ReSearch(ERROR_PATTERNS[p], text[i])
        /\ \A q \in 1..(p - 1), i \in 1..Len(text) :
              ~ReSearch(ERROR_PATTERNS[q], text[i])

\* The lines of the text that match the pattern.
LinesMatching(pattern, text) ==
    {i \in 1..Len(text) : ReSearch(pattern, text[i])}

\* The k-th line of the set, in text order.
NthLine(S, k) ==
    CHOOSE i \in S : Cardinality({j \in S : j <= i}) = k

\* C30: the key lines of an error event are the first lines of the text,
\* at most 5 and in text order, that match the earliest error pattern
\* matching any line, each without its surrounding blanks; a line that
\* matches only a later error pattern is not among them, wherever it is.
C30_EvidenceOfEarliestPattern ==
    (detected # NoEvent /\ detected.event_type = "error")
    => LET S == LinesMatching(ERROR_PATTERNS[EarliestErrorPattern(capture)],
                              capture)
           n == IF Cardinality(S) < 5 THEN Cardinality(S) ELSE 5
       IN  /\ Len(detected.key_lines) = n
           /\ \A k \in 1..n :
                 detected.key_lines[k] = StripLine(capture[NthLine(S, k)])

\* An error event whose text starts with a line matching only later
\* patterns and goes on with more than five lines matching the earliest.
C30_Witness ==
    /\ detected # NoEvent
    /\ detected.event_type = "error"
    /\ LET p == EarliestErrorPattern(capture)
           S == LinesMatching(ERROR_PATTERNS[p], capture)
       IN  /\ Cardinality(S) > 5
           /\ MatchesAny(ERROR_PATTERNS, capture[1])
           /\ 1 \notin S
           /\ capture[1] \notin {detected.key_lines[k] :
                                    k \in 1..Len(detected.key_lines)}

(***************************************************************************)
(* Claims about suppressed changes and repeated stalls                     *)
(***************************************************************************)
\* The step is a tick of the monitor of session s.
PolledNow(s) == polls' = polls + 1 /\ ret'[s].at = now

\* C31: a tick that sees the text change to an error or permission text
\* and returns nothing because of the debounce still stores the text in
\* last_output; and a tick that finds the text unchanged returns no error
\* or permission event, however long ago the change was: only STUCK.
C31_SuppressedChangeIsRemembered ==
    [][\A s \in Sessions :
          PolledNow(s)
             => /\ (escChanges'[s] # escChanges[s] /\ ret'[s].event = NoEvent)
                      => /\ monitor'[s].last_output # monitor[s].last_output
                         /\ monitor'[s].last_change_time = now
                         /\ detect_event(monitor'[s].last_output, now).event_type
                               \in {"error", "permission"}
                /\ monitor'[s].last_output = monitor[s].last_output
                      => ret'[s].event.event_type \in {"none", "stuck"}]_vars

\* A change to an error or permission text was debounced away, the text
\* has stayed since, and a tick debounce_seconds or more after the change
\* returned nothing.
C31_Witness ==
    \E s \in Sessions :
        /\ escChanges[s] # << >>
        /\ LET t0 == escChanges[s][Len(escChanges[s])]
           IN  /\ \A i \in 1..Len(events[s]) : events[s][i].timestamp # t0
               /\ monitor[s].last_change_time = t0
               /\ ret[s].at - t0 >= debounce_seconds
               /\ ret[s].event = NoEvent


\* C32: two STUCK events of the same idle stretch of a target are at least
\* stuck_threshold apart.
C32_StalledOncePerThreshold ==
    \A s \in Sessions :
        \A i \in StuckSinceChange(s), j \in StuckSinceChange(s) :
            i < j => events[s][j].timestamp - events[s][i].timestamp
                        >= stuck_threshold


\* C33: every escalation offers an option with the key "9", and every
\* offered key is a single digit.
C33_StopOptionNine ==
    pending.seq > 0
    => /\ \E i \in 1..Len(pending.options) : pending.options[i].key = << "9" >>
       /\ \A i \in 1..Len(pending.options) :
             /\ Len(pending.options[i].key) = 1
             /\ IsDigit(pending.options[i].key)

(***************************************************************************)
(* Claims about the authorized Telegram user                               *)
(***************************************************************************)
\* C34: with AUTHORIZED_USER_ID configured, no other Telegram user is ever
\* authenticated, and no message or command of another user makes a tmux
\* send-keys call, whatever code it presents.
C34_OnlyTheAuthorizedUser ==
    AUTHORIZED_USER_ID # 0
    => \A u \in Users \ {AUTHORIZED_USER_ID} :
          /\ ~user_sessions[u]
          /\ u \notin verified["telegram"]
          /\ (out.chan = "telegram" /\ out.who = u) => out.sent = << >>

\* Another user has sent the code that is valid at that moment and was
\* turned away.
C34_Witness ==
    /\ out.chan = "telegram"
    /\ out.who # AUTHORIZED_USER_ID
    /\ out.text = TotpAt(TimeStep(out.at))
    /\ out.reply = "unauthorized"
    /\ ~user_sessions[out.who]


(***************************************************************************)
(* Claims about session ordinals out of range                              *)
(***************************************************************************)
\* The reply is a direct command, "N: text" or "N text", of the bots.
IsDirectCommand(text) ==
    /\ text # << >>
    /\ Head(text) \in DigitChars
    /\ Len(TgDirectParts(text)) = 2
    /\ IntParses(TgDirectParts(text)[1])
    /\ Strip(TgDirectParts(text)[2]) # << >>

\* The ordinal a direct command names.
OrdinalOf(text) == IntOf(TgDirectParts(text)[1])

\* The latest request was a direct command of an authenticated principal
\* that names no registered session.
OrdinalOutOfRange ==
    /\ out.chan \in {"telegram", "whatsapp"}
    /\ out.was_auth
    /\ IsDirectCommand(out.text)
    /\ OrdinalOf(out.text) \notin 1..NumSessions

CapturedNow(s, text) ==
    /\ polls' = polls + 1
    /\ pane'.kind = "ok"
    /\ text = strip_ansi(pane'.stdout)
    /\ text # << "" >>
    /\ ret'[s].at = now

\* C36: a failed capture on a target whose last captured text was not empty
\* empties last_output and sets last_change_time to the clock; the next
\* successful capture of a screen, the one before the failure included, is a
\* change again: it becomes last_output, restarts the idle clock and is
\* classified by detect_event, whose event is returned unless debounced.
C36_FailureIsAChange ==
    [][\A s \in Watched :
          /\ (polls' = polls + 1 /\ CaptureFailed(pane')
                 /\ monitor[s].last_output # << "" >>)
                => /\ monitor'[s].last_output = << "" >>
                   /\ monitor'[s].last_change_time = now
                   /\ ret'[s] = [at |-> now, event |-> NoEvent]
          /\ \A text \in Texts :
                (CaptureFailed(pane) /\ monitor[s].last_output = << "" >>
                    /\ CapturedNow(s, text))
                   => /\ monitor'[s].last_output = text
                      /\ monitor'[s].last_change_time = now
                      /\ ret'[s].event =
                            IF \/ detect_event(text, now).event_type = "normal"
                               \/ DebouncedAway(monitor[s], now)
                            THEN NoEvent ELSE detect_event(text, now)
                      /\ (detect_event(text, now).event_type # "normal")
                            => escChanges'[s] = Append(escChanges[s], now)]_vars

\* The capture of a pane that showed an error failed one debounce window
\* after the error was reported: the text is forgotten and the idle clock
\* restarted at the failing tick.
C36_Witness ==
    \E s \in Watched :
        /\ CaptureFailed(pane)
        /\ Len(events[s]) = 1
        /\ events[s][1].event_type = "error"
        /\ ret[s].at >= events[s][1].timestamp + debounce_seconds
        /\ monitor[s].last_output = << "" >>
        /\ monitor[s].last_change_time = ret[s].at
        /\ monitor[s].last_event_time = events[s][1].timestamp


(***************************************************************************)
(* The hooks listener beside a polling monitor                             *)
(***************************************************************************)
\* Iterations of the run loop and connections explored per behaviour when
\* both run.
MaxSidePolls == 2

MaxSideConnections == 2

\* event_detector.py run twice for one session, with --hooks and without:
\* an iteration of TmuxMonitor.run in the polling process.
SidePoll ==
    /\ polls < MaxSidePolls
    /\ MonNext

\* A connection to the listener of the other process.
SideHook(p) ==
    /\ served < MaxSideConnections
    /\ HookConnection(p)

SideNext ==
    \/ SidePoll
    \/ \E p \in HookPayloads : SideHook(p)

\* Both processes have started; program names the listener's.
SideStart == Started("hooks")

SpecSide == SideStart /\ [][SideNext]_vars

\* C37: a connection of the hooks listener leaves every monitor as it was,
\* last_event_time included, and the event _handle_connection accepts is
\* handed to the callback whatever the monitors hold: no debounce window
\* suppresses it.
C37_HooksBypassMonitor ==
    [][served' = served + 1
          => /\ monitor' = monitor
             /\ LET event == handle_connection(hook_conn'.payload, now).event
                IN  event # NoEvent
                       => hook_events' = Append(hook_events, event)]_vars

\* The poller reported a permission prompt and, less than debounce_seconds
\* later, the listener handed a permission event to its callback: two events
\* within one debounce window.
C37_Witness ==
    \E s \in Watched : \E i \in 1..Len(events[s]), j \in 1..Len(hook_events) :
        /\ events[s][i].event_type = "permission"
        /\ hook_events[j].event_type = "permission"
        /\ hook_events[j].timestamp >= events[s][i].timestamp
        /\ hook_events[j].timestamp - events[s][i].timestamp < debounce_seconds
        /\ monitor[s].last_event_time = events[s][i].timestamp


(***************************************************************************)
(* telegram_tower.py: an affirmative reply beside the monitor threads      *)
(***************************************************************************)
\* Iterations of the monitor threads explored per behaviour beside a
\* handler.
MaxRacePolls == 2

\* One iteration of the thread of session s; it runs whatever the handler
\* on the event loop is doing.
RaceTick(s) == TgIteration(s, MaxRacePolls)

\* What the handler of an affirmative reply leaves alone.
ApproveFrame ==
    UNCHANGED << now, ticks, monVars, program, capture, detected, served,
                 hook_conn, hook_events, pane, loops, stopping, listener,
                 turn, wa_user_sessions, call_sessions, logs, pending >>

\* Lines 397-399 of handle_message (290-292 of approve_command): the
\* handler of an authenticated user reads the remembered session, which is
\* in range.
ApproveRead ==
    /\ program = "telegram"
    /\ user_sessions[AUTHORIZED_USER_ID]
    /\ replies < MaxReplies
    /\ approving.pc = "idle"
    /\ TgUseRemembered(TgState)
    /\ approving' = [approving EXCEPT !.pc = "read",
                        !.session_num = last_permission_session]
    /\ UNCHANGED << tgVars, out, verified, authHistory, replies >>
    /\ ApproveFrame

\* Line 400 (294): send_to_session(session_num, "yes"), which waits for the
\* tmux process and returns.
ApproveInject ==
    /\ approving.pc = "read"
    /\ \E tmuxOk \in BOOLEAN :
          approving' = [approving EXCEPT !.pc = "injected",
                           !.result = send_to_session(approving.session_num,
                                                      << "yes" >>, tmuxOk)]
    /\ UNCHANGED << tgVars, out, verified, authHistory, replies >>
    /\ ApproveFrame

\* Lines 401-403 (295-297): the memory is cleared and the result sent as
\* the answer.
ApproveClear ==
    /\ approving.pc = "injected"
    /\ LET r == Result([TgState EXCEPT !.last_permission_session = 0],
                       approving.result.reply, approving.result.sent)
       IN  /\ TgApply(r, AUTHORIZED_USER_ID, << "yes" >>)
           /\ AuthHistoryStep(r, AUTHORIZED_USER_ID)
    /\ approving' = NotApproving
    /\ replies' = replies + 1
    /\ ApproveFrame

\* An affirmative reply when no session in range is remembered: the scan of
\* lines 405-413, which leaves the memory alone.
ApproveScan ==
    /\ approving.pc = "idle"
    /\ ~TgUseRemembered(TgState)
    /\ TgReply(<< "yes" >>)

RaceNext ==
    \/ \E s \in Sessions : RaceTick(s)
    \/ TgLogin
    \/ ApproveRead
    \/ ApproveInject
    \/ ApproveClear
    \/ ApproveScan

RaceStart == Started("telegram")

SpecRace == RaceStart /\ [][RaceNext]_vars

\* C38: a permission event of another session recorded while the handler
\* of an affirmative reply is between reading the remembered session and
\* clearing the memory is not lost: the handler's clear leaves it remembered.
C38_RecordNotLost ==
    [][(approving.pc = "injected" /\ approving'.pc = "idle"
           /\ last_permission_session # approving.session_num)
          => last_permission_session' = last_permission_session]_vars


(***************************************************************************)
(* The alerters' callbacks may raise                                       *)
(***************************************************************************)
\* Iterations of the monitor threads explored per behaviour.
MaxDeliverPolls == 2

\* What becomes of on_event: it returns, or Summarizer.summarize raises
\* (the model's client fails), or send_whatsapp raises (the Twilio client
\* fails).  TelegramAlerter.on_event only schedules its send on the event
\* loop, which cannot raise in the thread.
CallbackOutcomes(p) ==
    IF p = "whatsapp" THEN {"delivered", "summarize_raised", "send_raised"}
    ELSE {"delivered", "summarize_raised"}

\* One iteration of TmuxMonitor.run in a thread of an alerter: check_once
\* and, on an event, on_event; run has no handler around callback(event),
\* so an exception of on_event ends the thread.
DeliverTick(s) ==
    /\ program \in {"telegram", "whatsapp"}
    /\ loops[s] = "running"
    /\ polls < MaxDeliverPolls
    /\ Poll(s)
    /\ IF ret'[s].event = NoEvent
       THEN UNCHANGED << last_permission_session, pending, loops >>
       ELSE \E llm \in LlmReplies, o \in CallbackOutcomes(program) :
               /\ last_permission_session' =
                     IF program = "telegram"
                     THEN TgOnEvent(TgState, s, ret'[s].event.event_type)
                              .last_permission_session
                     ELSE last_permission_session
               /\ pending' =
                     IF o # "delivered" THEN pending
                     ELSE Escalation(s, ret'[s].event,
                                     IF program = "telegram"
                                     THEN FirstN(SummaryOptions(llm), 3)
                                     ELSE SummaryOptions(llm))
               /\ loops' = IF o = "delivered" THEN loops
                           ELSE [loops EXCEPT ![s] = "raised"]
    /\ UNCHANGED << ticks, user_sessions, failed_auth_attempts, out, verified,
                    authHistory, program, capture, detected, served,
                    hook_conn, hook_events, pane, stopping, listener, turn,
                    approving, wa_user_sessions, call_sessions, logs,
                    replies >>

DeliverNext == \E s \in Sessions : DeliverTick(s)

DeliverStart == Started("telegram") \/ Started("whatsapp")

SpecDeliver == DeliverStart /\ [][DeliverNext]_vars

\* C39: a failure while delivering an event does not stop the poll loop of
\* the target that raised it: the loop of every session keeps running.
C39_LoopSurvivesCallback ==
    \A s \in Sessions : loops[s] = "running"


(***************************************************************************)
(* inbound_server.py: verification requests past the third failure         *)
(***************************************************************************)
\* Calls of verify_code explored per call when the requests go on after the
\* hang-up response.
MaxCallTries == 4

\* POST /voice/verify for call sid: the route serves whatever request
\* names the CallSid, also after it has answered with a hang-up.
CallVerify(sid, digits) ==
    /\ call_sessions[sid].attempts < MaxCallTries
    /\ \E r \in {verify_code(call_sessions, sid, digits, now, statuses) :
                    statuses \in StatusLists} :
          /\ call_sessions' = r.st
          /\ Requested("voice", sid, digits, r)

CallNext ==
    \/ /\ \E sid \in Calls : VoiceAnswer(sid)
       /\ UNCHANGED << now, ticks, monVars, tgVars, authHistory, progVars,
                       wa_user_sessions, logs, replies, pending >>
    \/ /\ \E sid \in Calls,
             digits \in {TotpAt(TimeStep(now)), TotpAt(TimeStep(now) + 2)} :
             CallVerify(sid, digits)
       /\ UNCHANGED << now, ticks, monVars, tgVars, authHistory, progVars,
                       wa_user_sessions, logs, replies, pending >>

CallStart == Started("voice")

SpecCall == CallStart /\ [][CallNext]_vars

\* Three verifications of call sid have failed since it was answered: the
\* third was met with "Too many tries" and the hang-up.
TooManyTries(sid) ==
    /\ call_sessions[sid].present
    /\ ~call_sessions[sid].authenticated
    /\ call_sessions[sid].attempts >= 3

\* C40: once three verifications of a call have failed and the hang-up
\* response was returned, no later request makes the call's session
\* authenticated.
C40_NoCodeAfterHangUp ==
    [][\A sid \in Calls :
          TooManyTries(sid) => ~call_sessions'[sid].authenticated]_vars

=============================================================================
